---- MODULE Spec2Model ----
(***************************************************************************)
(* Model of the Profile / Session / Event / Attribute object graph of      *)
(* libs/profile.js and libs/session.js and of Profile.prototype.merge,     *)
(* and of the settings cache of the InnoHelper of libs/index.js.           *)
(*                                                                         *)
(* JavaScript objects have identity: the model keeps three heaps           *)
(* (attrHeap, sessHeap, evtHeap) and a Profile holds sequences of          *)
(* references (indices) into them, so that two Profiles holding the same   *)
(* object is a state the model can be in.                                  *)
(***************************************************************************)
EXTENDS Integers, Sequences, FiniteSets, TLC

\* ---------------------------------------------------------------- bounds
\* Size of a constructor config: attribute names + sessions + session data
\* keys + events it contains.
MaxSize == 2
\* Size of the config of the remote Profile in the general specification.
MaxSmall == 1
\* Number of operations applied after construction.
MaxSteps == 2
\* Length of the array handed to setAttributes.
MaxList == 3
\* Number of calls in the specifications that record their calls.
MaxCalls == 1
\* Number of steps of the helper specifications.
MaxTrace == 5
\* Number of requests in flight.
MaxPending == 2
\* calls of loadProfile and refreshLocalProfile in one behaviour
MaxLoads == 2
\* Largest length asked of an IdGenerator, and the number of leading
\* characters of an id that vary.
MaxIdLength == 2
\* Number of steps of the IdGenerator specification.
MaxIds == 3

\* ---------------------------------------------------------- input domains
Values == {1, 2}
Names == {"x", "y"}
Sections == {"sec", ""}
CollectApps == {"app"}
ProfileIds == {"p1", "p2"}
SessIds == {"s1", "s2"}
EvtIds == {"e1", "e2"}
DefIds == {"d1", "d2", ""}
DataKeys == {"k1", "k2"}
\* ids handed out by idGenerator.generate, in order
GenIds == <<"g1", "g2", "g3", "g4">>
\* a data key that is not set (JavaScript undefined), a null reference
Undefined == 0
Null == 0

PROFILES == {"local", "remote"}

VARIABLES attrHeap, sessHeap, evtHeap, prof, nextGen, clock, last, before, steps,
          calls, helper, pending, trace, generator

vars == <<attrHeap, sessHeap, evtHeap, prof, nextGen, clock, last, before, steps,
          calls, helper, pending, trace, generator>>

\* the Profiles, the IdGenerator, and what the specifications record about
\* the calls on them
profileVars ==
    <<attrHeap, sessHeap, evtHeap, prof, nextGen, last, before, steps, calls, generator>>
\* the InnoHelper, its requests in flight and the record of its steps
helperVars == <<helper, pending, trace>>

\* ------------------------------------------------------ sequence helpers
Range(s) == {s[i] : i \in 1..Len(s)}

\* index of the first element of s satisfying Test, 0 when there is none
FirstIndex(s, Test(_)) ==
    IF \E i \in 1..Len(s) : Test(s[i])
    THEN CHOOSE i \in 1..Len(s) : Test(s[i]) /\ \A j \in 1..(i - 1) : ~Test(s[j])
    ELSE 0

\* F applied to the value of v, with v evaluated once (the statement
\* "var x = v; return F(x)")
Then(v, F(_)) == CHOOSE r \in {F(x) : x \in {v}} : TRUE

\* ------------------------------------------------------------- Attribute
\* new Attribute(config)
Attribute(config) ==
    [collectApp |-> config.collectApp, section |-> config.section,
     name |-> config.name, value |-> config.value]

\* Attribute.prototype.isValid
AttributeIsValid(a) == a.collectApp # "" /\ a.section # "" /\ a.name # ""

\* ----------------------------------------------------------------- Event
\* idGenerator.generate(n): the next unused identifier
Generate(m) == [m EXCEPT !.G = @ + 1, !.ret = GenIds[m.G]]

\* new Event(config): allocates the Event, its reference is .ret
Event(m, config) ==
    Then(IF config.id # "" THEN [m EXCEPT !.ret = config.id] ELSE Generate(m),
         LAMBDA g :
            [g EXCEPT !.E = Append(@, [id |-> g.ret,
                                       definitionId |-> config.definitionId,
                                       data |-> config.data,
                                       createdAt |-> g.now]),
                      !.ret = Len(g.E) + 1])

\* Event.prototype.isValid
EventIsValid(e) == e.id # "" /\ e.definitionId # ""

\* Event.prototype.setData
EventSetData(m, ref, data) == [m EXCEPT !.E[ref].data = data]

\* Event.prototype.setDefinitionId
EventSetDefinitionId(m, ref, definitionId) ==
    [m EXCEPT !.E[ref].definitionId = definitionId]

\* ----------------------------------------------------------- IdGenerator
\* the length of an id when none is asked for
DefaultLength == 32

\* the characters of an id
IdChars == {"a", "b"}

\* the arguments of new IdGenerator(length): none, a string, or the number
\* halves / 2 (so 19 stands for 9.5)
Lengths ==
    [kind : {"undefined", "string"}, halves : {0}]
    \cup [kind : {"number"}, halves : (0 - 2)..(2 * MaxIdLength)]

\* what the test and the spec leave open: which check a negative non-integer
\* fails first, and whether length 0 throws, gives empty ids, or counts as
\* no length
IdChoices == [positiveFirst : BOOLEAN, zero : {"throws", "empty", "default"}]

\* no IdGenerator constructed yet
NoGenerator ==
    [constructed |-> FALSE, length |-> 0, arg |-> [kind |-> "undefined", halves |-> 0]]

\* the outcome of new IdGenerator(length): the error thrown, or the length
\* of the ids it will give
Constructs(err, n) == [err |-> err, length |-> n]

\* variant: a number is not checked to be an integer
IdGenerator_anyNumber(length, choice) ==
    IF length.kind = "undefined" THEN Constructs("", DefaultLength)
    ELSE IF length.kind # "number" THEN Constructs("Length should be a number", 0)
    ELSE IF length.halves < 0 THEN Constructs("Length should be positive", 0)
    ELSE Constructs("", length.halves \div 2)

\* new IdGenerator(length)
IdGenerator(length, choice) ==
    IF length.kind = "undefined" THEN Constructs("", DefaultLength)
    ELSE IF length.kind # "number" THEN Constructs("Length should be a number", 0)
    ELSE IF length.halves < 0 /\ length.halves % 2 # 0
    THEN Constructs(IF choice.positiveFirst THEN "Length should be positive"
                    ELSE "Length should be integer", 0)
    ELSE IF length.halves < 0 THEN Constructs("Length should be positive", 0)
    ELSE IF length.halves % 2 # 0 THEN Constructs("Length should be integer", 0)
    ELSE IF length.halves = 0
    THEN (IF choice.zero = "throws" THEN Constructs("Length should be positive", 0)
          ELSE IF choice.zero = "empty" THEN Constructs("", 0)
          ELSE Constructs("", DefaultLength))
    ELSE Constructs("", length.halves \div 2)

\* the strings IdGenerator.prototype.getId can return for length n; beyond
\* the first MaxIdLength characters only one string is followed
IdStrings(n) ==
    IF n <= MaxIdLength THEN [1..n -> IdChars]
    ELSE {prefix \o [i \in 1..(n - MaxIdLength) |-> "a"] :
             prefix \in [1..MaxIdLength -> IdChars]}

\* --------------------------------------------------------------- Session
\* variant: the data object is replaced by src
ObjMerge_replace(target, src) == src

\* merge(target, src) of the "merge" package on two plain objects: every key
\* of src is written into target, the other keys of target stay
ObjMerge(target, src) ==
    [k \in DataKeys |-> IF src[k] # Undefined THEN src[k] ELSE target[k]]

EmptyData == [k \in DataKeys |-> Undefined]

\* variant: a key the session already has keeps its value
SessionSetData_firstWins(m, ref, data) ==
    [m EXCEPT !.S[ref].data = ObjMerge(data, @)]

\* Session.prototype.setData
SessionSetData(m, ref, data) ==
    [m EXCEPT !.S[ref].data = ObjMerge(@, data)]

RECURSIVE initEventsFrom(_, _, _, _)
\* rawEventsData.map(new Event) from index i on; acc collects the references
initEventsFrom(m, raw, i, acc) ==
    IF i > Len(raw) THEN [m EXCEPT !.ret = acc]
    ELSE Then(Event(m, raw[i]),
              LAMBDA m1 : initEventsFrom(m1, raw, i + 1, Append(acc, m1.ret)))

\* new Session(config): allocates the Session, its reference is .ret
Session(m, config) ==
    Then(IF config.id # "" THEN [m EXCEPT !.ret = config.id] ELSE Generate(m),
         LAMBDA g :
    Then(initEventsFrom(g, config.events, 1, <<>>),
         LAMBDA ev :
            [ev EXCEPT
               !.S = Append(@,
                  [id |-> g.ret,
                   data |-> ObjMerge(EmptyData, config.data),
                   collectApp |-> IF config.collectApp # "" THEN config.collectApp
                                  ELSE "web",
                   section |-> config.section,
                   createdAt |-> IF config.createdAt # 0 THEN config.createdAt
                                 ELSE g.now,
                   modifiedAt |-> IF config.modifiedAt # 0 THEN config.modifiedAt
                                  ELSE g.now,
                   events |-> ev.ret]),
               !.ret = Len(ev.S) + 1]))

\* Session.prototype.isValid
SessionIsValid(s) ==
    s.id # "" /\ s.section # "" /\ s.collectApp # "" /\ s.createdAt # 0

\* Session.prototype.getEvent: the first event with that id, or null
getEvent(m, sref, eventId) ==
    LET events == m.S[sref].events
        i == FirstIndex(events, LAMBDA r : m.E[r].id = eventId)
    IN IF i = 0 THEN Null ELSE events[i]

\* Session.prototype.addEvent, called with an Event instance (isInst) or with
\* a raw config
addEvent(m, sref, isInst, ref, config) ==
    Then(IF isInst THEN [m EXCEPT !.ret = ref] ELSE Event(m, config),
         LAMBDA m1 :
    Then(m1.E[m1.ret],
         LAMBDA event :
    Then(getEvent(m1, sref, event.id),
         LAMBDA existEvent :
            IF ~EventIsValid(event) THEN [m1 EXCEPT !.err = "Event is not valid"]
            ELSE IF existEvent # Null
            THEN Then(EventSetData(m1, existEvent, event.data),
                      LAMBDA m2 :
                         [EventSetDefinitionId(m2, existEvent, event.definitionId)
                            EXCEPT !.ret = existEvent])
            ELSE [m1 EXCEPT !.S[sref].events = Append(@, m1.ret)])))

\* --------------------------------------------------------------- Profile
RECURSIVE groupAttributes(_, _, _, _)
\* the for-in loop over attr.data of one config.attributes entry: one new
\* Attribute per name, pushed onto the local array acc
groupAttributes(m, attr, i, acc) ==
    IF i > Len(attr.data) THEN [m EXCEPT !.ret = acc]
    ELSE Then([m EXCEPT !.A = Append(@,
                    Attribute([collectApp |-> attr.collectApp,
                               section |-> attr.section,
                               name |-> attr.data[i].name,
                               value |-> attr.data[i].value]))],
              LAMBDA m1 : groupAttributes(m1, attr, i + 1, Append(acc, Len(m1.A))))

RECURSIVE configAttributes(_, _, _, _)
\* config.attributes.forEach of the constructor
configAttributes(m, attributes, i, acc) ==
    IF i > Len(attributes) THEN [m EXCEPT !.ret = acc]
    ELSE Then(groupAttributes(m, attributes[i], 1, acc),
              LAMBDA m1 : configAttributes(m1, attributes, i + 1, m1.ret))

RECURSIVE configSessions(_, _, _, _)
\* config.sessions.map(new Session)
configSessions(m, sessions, i, acc) ==
    IF i > Len(sessions) THEN [m EXCEPT !.ret = acc]
    ELSE Then(Session(m, sessions[i]),
              LAMBDA m1 : configSessions(m1, sessions, i + 1, Append(acc, m1.ret)))

\* new Profile(config), stored in the variable p of the caller
Profile(m, p, config) ==
    Then(IF config.id # "" THEN [m EXCEPT !.ret = config.id] ELSE Generate(m),
         LAMBDA g :
    Then(configAttributes(g, config.attributes, 1, <<>>),
         LAMBDA ma :
    Then(configSessions(ma, config.sessions, 1, <<>>),
         LAMBDA ms :
            [ms EXCEPT !.P[p] = [id |-> g.ret, attributes |-> ma.ret,
                                 sessions |-> ms.ret],
                       !.ret = p])))

\* Profile.prototype.getAttribute: the first Attribute with that name among
\* getAttributes(collectApp, section), or null
getAttribute(m, p, name, collectApp, section) ==
    LET attributes == m.P[p].attributes
        i == FirstIndex(attributes,
                        LAMBDA r : /\ m.A[r].collectApp = collectApp
                                   /\ m.A[r].section = section
                                   /\ m.A[r].name = name)
    IN IF i = 0 THEN Null ELSE attributes[i]

\* An element of the array handed to setAttributes: an Attribute instance
\* (a reference) or a raw object
Inst(ref) == [isInst |-> TRUE, ref |-> ref,
              config |-> [collectApp |-> "", section |-> "", name |-> "", value |-> Undefined]]
Raw(config) == [isInst |-> FALSE, ref |-> Null, config |-> config]

RECURSIVE setAttributesFrom(_, _, _, _)
\* variant: the whole array is validated before the first entry is applied
setAttributesFrom_validateFirst(m, p, attributes, i) ==
    IF \E j \in i..Len(attributes) :
          ~AttributeIsValid(IF attributes[j].isInst THEN m.A[attributes[j].ref]
                            ELSE attributes[j].config)
    THEN [m EXCEPT !.err = "Attribute is not valid"]
    ELSE IF i > Len(attributes) THEN [m EXCEPT !.ret = p]
    ELSE Then(IF attributes[i].isInst THEN [m EXCEPT !.ret = attributes[i].ref]
              ELSE [m EXCEPT !.A = Append(@, Attribute(attributes[i].config)),
                             !.ret = Len(m.A) + 1],
              LAMBDA m1 :
         Then(m1.A[m1.ret],
              LAMBDA attr :
         Then(getAttribute(m1, p, attr.name, attr.collectApp, attr.section),
              LAMBDA foundAttr :
                 Then(IF foundAttr # Null
                      THEN [m1 EXCEPT !.A[foundAttr].value = attr.value]
                      ELSE [m1 EXCEPT !.P[p].attributes = Append(@, m1.ret)],
                      LAMBDA m2 : setAttributesFrom(m2, p, attributes, i + 1)))))

\* the forEach of Profile.prototype.setAttributes from index i on: a throw
\* leaves the entries before i applied
setAttributesFrom(m, p, attributes, i) ==
    IF i > Len(attributes) THEN [m EXCEPT !.ret = p]
    ELSE Then(IF attributes[i].isInst THEN [m EXCEPT !.ret = attributes[i].ref]
              ELSE [m EXCEPT !.A = Append(@, Attribute(attributes[i].config)),
                             !.ret = Len(m.A) + 1],
              LAMBDA m1 :
         Then(m1.A[m1.ret],
              LAMBDA attr :
         Then(getAttribute(m1, p, attr.name, attr.collectApp, attr.section),
              LAMBDA foundAttr :
                 IF ~AttributeIsValid(attr)
                 THEN [m1 EXCEPT !.err = "Attribute is not valid"]
                 ELSE Then(IF foundAttr # Null
                           THEN [m1 EXCEPT !.A[foundAttr].value = attr.value]
                           ELSE [m1 EXCEPT !.P[p].attributes = Append(@, m1.ret)],
                           LAMBDA m2 : setAttributesFrom(m2, p, attributes, i + 1)))))

\* Profile.prototype.setAttributes
setAttributes(m, p, attributes) == setAttributesFrom(m, p, attributes, 1)

\* Profile.prototype.getSession: the first Session with that id, or null
getSession(m, p, sessionId) ==
    LET sessions == m.P[p].sessions
        i == FirstIndex(sessions, LAMBDA r : m.S[r].id = sessionId)
    IN IF i = 0 THEN Null ELSE sessions[i]

\* variant: the passed Session takes the place of the stored one
setSession_replace(m, p, isInst, ref, config) ==
    Then(IF isInst THEN [m EXCEPT !.ret = ref] ELSE Session(m, config),
         LAMBDA m1 :
    Then(FirstIndex(m1.P[p].sessions, LAMBDA r : m1.S[r].id = m1.S[m1.ret].id),
         LAMBDA i :
            IF ~SessionIsValid(m1.S[m1.ret]) THEN [m1 EXCEPT !.err = "Session is not valid"]
            ELSE IF i # 0 THEN [m1 EXCEPT !.P[p].sessions[i] = m1.ret]
            ELSE [m1 EXCEPT !.P[p].sessions = Append(@, m1.ret)]))

\* Profile.prototype.setSession, called with a Session instance (isInst) or
\* with a raw config; .ret is the returned Session
setSession(m, p, isInst, ref, config) ==
    Then(IF isInst THEN [m EXCEPT !.ret = ref] ELSE Session(m, config),
         LAMBDA m1 :
    Then(getSession(m1, p, m1.S[m1.ret].id),
         LAMBDA existSession :
            IF ~SessionIsValid(m1.S[m1.ret]) THEN [m1 EXCEPT !.err = "Session is not valid"]
            ELSE IF existSession # Null THEN m1
            ELSE [m1 EXCEPT !.P[p].sessions = Append(@, m1.ret)]))

\* the Sessions that sessions.concat().sort(b.modifiedAt - a.modifiedAt) can
\* put first: those with the largest modifiedAt (which of several the sort
\* puts first is left to the engine's sort)
SortedFirst(m, p) ==
    {r \in Range(m.P[p].sessions) :
        \A q \in Range(m.P[p].sessions) : m.S[q].modifiedAt <= m.S[r].modifiedAt}

\* Profile.prototype.getLastSession, with first the head of the sorted copy;
\* .ret is the returned Session or null
getLastSession(m, p, first) ==
    IF Len(m.P[p].sessions) # 0
    THEN [m EXCEPT !.ret = getSession(m, p, m.S[first].id)]
    ELSE [m EXCEPT !.ret = Null]

\* data[name] = value on a plain object kept as its entries in insertion
\* order: a key the object has keeps its place
DataPut(data, name, value) ==
    IF \E i \in 1..Len(data) : data[i].name = name
    THEN [i \in 1..Len(data) |->
             IF data[i].name = name THEN [data[i] EXCEPT !.value = value] ELSE data[i]]
    ELSE Append(data, [name |-> name, value |-> value])

\* the inner forEach of serialize: the index of the last group with that
\* collectApp and section, 0 for none (currentAttrData stays null)
currentAttrData(attributes, app, sec) ==
    IF \E i \in 1..Len(attributes) :
          attributes[i].collectApp = app /\ attributes[i].section = sec
    THEN CHOOSE i \in 1..Len(attributes) :
            /\ attributes[i].collectApp = app /\ attributes[i].section = sec
            /\ \A j \in (i + 1)..Len(attributes) :
                  ~(attributes[j].collectApp = app /\ attributes[j].section = sec)
    ELSE 0

RECURSIVE serializeAttributes(_, _, _, _)
\* profileData.attributes.forEach of serialize from index i on; attributes
\* is the array of {collectApp, section, data} built so far
serializeAttributes(m, refs, i, attributes) ==
    IF i > Len(refs) THEN attributes
    ELSE Then(m.A[refs[i]], LAMBDA attr :
            IF ~AttributeIsValid(attr)
            THEN serializeAttributes(m, refs, i + 1, attributes)
            ELSE
         Then(currentAttrData(attributes, attr.collectApp, attr.section), LAMBDA c :
         Then(IF c = 0
              THEN Append(attributes, [collectApp |-> attr.collectApp,
                                       section |-> attr.section, data |-> <<>>])
              ELSE attributes, LAMBDA pushed :
         Then(IF c = 0 THEN Len(pushed) ELSE c, LAMBDA g :
            serializeAttributes(m, refs, i + 1,
               [pushed EXCEPT ![g].data = DataPut(@, attr.name, attr.value)])))))

\* Event.prototype.serialize: a plain object
EventSerialize(e) ==
    [id |-> e.id, definitionId |-> e.definitionId, data |-> e.data,
     createdAt |-> e.createdAt]

\* Session.prototype.serializeEvents
serializeEvents(m, sref) ==
    [j \in 1..Len(m.S[sref].events) |-> EventSerialize(m.E[m.S[sref].events[j]])]

\* Session.prototype.serialize
SessionSerialize(m, sref) ==
    [id |-> m.S[sref].id, section |-> m.S[sref].section,
     collectApp |-> m.S[sref].collectApp, data |-> m.S[sref].data,
     events |-> serializeEvents(m, sref),
     createdAt |-> m.S[sref].createdAt, modifiedAt |-> m.S[sref].modifiedAt]

\* Profile.prototype.serialize; .ret is the returned plain object.
\* profileData.sessions.map calls event.serialize() on every element of
\* sessionObj.events, which are the plain objects serializeEvents returned
\* and have no serialize method: a TypeError for the first of them
serialize(m, p) ==
    Then(serializeAttributes(m, m.P[p].attributes, 1, <<>>), LAMBDA attributes :
    Then([i \in 1..Len(m.P[p].sessions) |-> SessionSerialize(m, m.P[p].sessions[i])],
         LAMBDA sessions :
            IF \E i \in 1..Len(sessions) : Len(sessions[i].events) > 0
            THEN [m EXCEPT !.err = "TypeError: event.serialize is not a function"]
            ELSE [m EXCEPT !.ret = [id |-> m.P[p].id, attributes |-> attributes,
                                    sessions |-> sessions]]))

\* deepmerge(target, src) of the "deepmerge" package on two arrays: the result
\* is a new array that starts as a copy of target; an element of src at an
\* index the copy does not have is stored as it is, by reference. merge only
\* calls it with target = [], so every element of src lands on a free index.
deepmerge(target, src) ==
    target \o SubSeq(src, Len(target) + 1, Len(src))

\* an array of instances as setAttributes sees it
Insts(refs) == [i \in 1..Len(refs) |-> Inst(refs[i])]

NoSessionConfig ==
    [id |-> "", section |-> "", collectApp |-> "", data |-> EmptyData,
     events |-> <<>>, createdAt |-> 0, modifiedAt |-> 0]
NoEventConfig == [id |-> "", definitionId |-> "", data |-> Undefined]

RECURSIVE mergeEventsFrom(_, _, _, _, _)
\* variant: an event id of both sides keeps the remote data
mergeEventsFrom_keepRemoteData(m, newSession, localSession, j, n) ==
    IF j > n THEN m
    ELSE Then(m.S[localSession].events[j],
              LAMBDA localEvent :
         Then(getEvent(m, newSession, m.E[localEvent].id),
              LAMBDA newEvent :
         Then(IF newEvent # Null
              THEN m
              ELSE addEvent(m, newSession, TRUE, localEvent, NoEventConfig),
              LAMBDA m1 :
                 IF m1.err # "" THEN m1
                 ELSE mergeEventsFrom(m1, newSession, localSession, j + 1, n))))

\* variant: every local event goes through addEvent
mergeEventsFrom_addEventAlways(m, newSession, localSession, j, n) ==
    IF j > n THEN m
    ELSE Then(addEvent(m, newSession, TRUE, m.S[localSession].events[j],
                       NoEventConfig),
              LAMBDA m1 :
                 IF m1.err # "" THEN m1
                 ELSE mergeEventsFrom(m1, newSession, localSession, j + 1, n))

\* localEvents.forEach of merge from index j on; n is the length of
\* localEvents when the forEach began
mergeEventsFrom(m, newSession, localSession, j, n) ==
    IF j > n THEN m
    ELSE Then(m.S[localSession].events[j],
              LAMBDA localEvent :
         Then(getEvent(m, newSession, m.E[localEvent].id),
              LAMBDA newEvent :
         Then(IF newEvent # Null
              THEN EventSetData(m, newEvent, m.E[localEvent].data)
              ELSE addEvent(m, newSession, TRUE, localEvent, NoEventConfig),
              LAMBDA m1 :
                 IF m1.err # "" THEN m1
                 ELSE mergeEventsFrom(m1, newSession, localSession, j + 1, n))))

\* variant: a session only local has is not put back
mergeSession_dropLocalOnly(m, p, localSession) ==
    Then(getSession(m, p, m.S[localSession].id),
         LAMBDA newSession :
            IF newSession # Null
            THEN Then(SessionSetData(m, newSession, m.S[localSession].data),
                      LAMBDA m1 : mergeEventsFrom(m1, newSession, localSession, 1,
                                                  Len(m1.S[localSession].events)))
            ELSE m)

\* the body of localSessions.forEach for one local session
mergeSession(m, p, localSession) ==
    Then(getSession(m, p, m.S[localSession].id),
         LAMBDA newSession :
            IF newSession # Null
            THEN Then(SessionSetData(m, newSession, m.S[localSession].data),
                      LAMBDA m1 : mergeEventsFrom(m1, newSession, localSession, 1,
                                                  Len(m1.S[localSession].events)))
            ELSE setSession(m, p, TRUE, localSession, NoSessionConfig))

RECURSIVE mergeSessionsFrom(_, _, _, _)
\* localSessions.forEach of merge from index i on
mergeSessionsFrom(m, p, localSessions, i) ==
    IF i > Len(localSessions) THEN m
    ELSE Then(mergeSession(m, p, localSessions[i]),
              LAMBDA m1 : IF m1.err # "" THEN m1
                          ELSE mergeSessionsFrom(m1, p, localSessions, i + 1))

\* the two setAttributes calls of merge
mergeAttributes(m, p, newAttrs, localAttrs) ==
    Then(setAttributes(m, p, Insts(newAttrs)),
         LAMBDA m1 : IF m1.err # "" THEN m1
                     ELSE setAttributes(m1, p, Insts(localAttrs)))

\* variant: the ids are not compared
idsSimilar_unchecked(m, p, profile) == TRUE

\* the precondition of merge on the two ids
idsSimilar(m, p, profile) == m.P[p].id = m.P[profile].id

\* variant: merge returns its argument
mergeResult_argument(p, profile) == profile

\* what merge returns
mergeResult(p, profile) == p

\* Profile.prototype.merge: p.merge(profile); .ret is the returned Profile
merge(m, p, profile) ==
    IF ~idsSimilar(m, p, profile)
    THEN [m EXCEPT !.err = "Profile IDs should be similar"]
    ELSE Then(deepmerge(<<>>, m.P[p].attributes), LAMBDA localAttrs :
         Then(deepmerge(<<>>, m.P[profile].attributes), LAMBDA newAttrs :
         Then(deepmerge(<<>>, m.P[p].sessions), LAMBDA localSessions :
         Then(deepmerge(<<>>, m.P[profile].sessions), LAMBDA newSessions :
         Then(mergeAttributes(m, p, newAttrs, localAttrs), LAMBDA m1 :
            IF m1.err # "" THEN m1
            ELSE Then([m1 EXCEPT !.P[p].sessions = newSessions], LAMBDA m2 :
                 Then(mergeSessionsFrom(m2, p, localSessions, 1), LAMBDA m3 :
                    IF m3.err # "" THEN m3
                    ELSE [m3 EXCEPT !.ret = mergeResult(p, profile)])))))))

\* ----------------------------------------------------------------- Cache
\* config.appName
AppName == "appName"

\* InnoHelper.prototype.getCacheKey
getCacheKey(name) == (IF name = "" THEN "default" ELSE name) \o "-" \o AppName

\* the keys the helper builds
CacheKeys == {getCacheKey("settings"), getCacheKey("attributes")}

\* a key that was never set or was evicted
NoEntry == [has |-> FALSE, value |-> Undefined, at |-> 0]

\* new Cache(config): no key is set
Cache(config) ==
    [null |-> FALSE, cachedTime |-> config.cachedTime,
     cache |-> [k \in CacheKeys |-> NoEntry]]

\* the value of helper.cache when no Cache was constructed
NullCache ==
    [null |-> TRUE, cachedTime |-> 0, cache |-> [k \in CacheKeys |-> NoEntry]]

\* Cache.prototype.get at time now: the value while the time-to-live has not
\* elapsed since the set, undefined otherwise
CacheGet(c, name, now) ==
    IF c.cache[name].has /\ now - c.cache[name].at < c.cachedTime
    THEN c.cache[name].value
    ELSE Undefined

\* Cache.prototype.set at time now
CacheSet(c, name, value, now) ==
    [c EXCEPT !.cache[name] = [has |-> TRUE, value |-> value, at |-> now]]

\* Cache.prototype.expire
CacheExpire(c, name) == [c EXCEPT !.cache[name] = NoEntry]

\* Cache.prototype.clearCache
CacheClearCache(c) == [c EXCEPT !.cache = [k \in CacheKeys |-> NoEntry]]

\* ------------------------------------------------------------ InnoHelper
\* variant: the Cache is constructed with a time-to-live of 60 seconds
InnoHelper_cachedTime60(config) ==
    [noCache |-> IF config.hasNoCache THEN config.noCache ELSE FALSE,
     cache |-> IF ~(IF config.hasNoCache THEN config.noCache ELSE FALSE)
               THEN Cache([cachedTime |-> 60])
               ELSE NullCache]

\* new InnoHelper(config): noCache is the prototype's false unless the
\* config gives it; the Cache exists only when caching is allowed now
InnoHelper(config) ==
    [noCache |-> IF config.hasNoCache THEN config.noCache ELSE FALSE,
     cache |-> IF ~(IF config.hasNoCache THEN config.noCache ELSE FALSE)
               THEN Cache([cachedTime |-> 600])
               ELSE NullCache]

\* InnoHelper.prototype.isCacheAllowed
isCacheAllowed(h) == ~h.noCache

\* InnoHelper.prototype.setCacheAllowed
setCacheAllowed(h, value) == [h EXCEPT !.noCache = ~value]

\* the response of a step that is not a request's callback
NoResponse == [error |-> FALSE, hasCustom |-> FALSE, custom |-> Undefined]

\* what one step of the helper did: the helper after it, the cacheAllowed
\* the call took, whether it called cache.get, issued a request, called its
\* callback (with err and settings), or threw, whether it was called without
\* settings, and the response it was called back with
Step(h, cacheAllowed) ==
    [helper |-> h, allowed |-> cacheAllowed, read |-> FALSE, requested |-> FALSE,
     delivered |-> FALSE, err |-> "", settings |-> Undefined, thrown |-> "",
     missing |-> FALSE, response |-> NoResponse]

\* a response as request hands it to the callback: an error, a body without
\* "custom", or a body with it
Responses ==
    {[error |-> TRUE, hasCustom |-> FALSE, custom |-> Undefined],
     [error |-> FALSE, hasCustom |-> FALSE, custom |-> Undefined]}
    \cup [error : {FALSE}, hasCustom : {TRUE}, custom : Values]

\* checkErrors followed by validateObject(response.body, 'custom')
ResponseError(response) ==
    IF response.error THEN "request error"
    ELSE IF ~response.hasCustom THEN "CUSTOM not found"
    ELSE ""

\* variant: the cache is not consulted
getAppSettings_alwaysRequest(h, now) ==
    [Step(h, isCacheAllowed(h)) EXCEPT !.requested = TRUE]

\* InnoHelper.prototype.getAppSettings up to its return
getAppSettings(h, now) ==
    IF isCacheAllowed(h)
    THEN IF h.cache.null
         THEN [Step(h, TRUE) EXCEPT !.thrown = "TypeError"]
         ELSE IF CacheGet(h.cache, getCacheKey("settings"), now) # Undefined
         THEN [Step(h, TRUE) EXCEPT
                 !.read = TRUE, !.delivered = TRUE,
                 !.settings = CacheGet(h.cache, getCacheKey("settings"), now)]
         ELSE [Step(h, TRUE) EXCEPT !.read = TRUE, !.requested = TRUE]
    ELSE [Step(h, FALSE) EXCEPT !.requested = TRUE]

\* variant: the response is cached whatever cacheAllowed was
getAppSettingsResponse_alwaysCache(h, now, cacheAllowed, response) ==
    IF ResponseError(response) # ""
    THEN [Step(h, cacheAllowed) EXCEPT !.delivered = TRUE, !.err = ResponseError(response)]
    ELSE [Step(IF ~h.cache.null
               THEN [h EXCEPT !.cache = CacheSet(@, getCacheKey("settings"),
                                                 response.custom, now)]
               ELSE h, cacheAllowed)
            EXCEPT !.delivered = TRUE, !.settings = response.custom]

\* variant: a body without "custom" is a success with no settings
getAppSettingsResponse_customOptional(h, now, cacheAllowed, response) ==
    IF response.error
    THEN [Step(h, cacheAllowed) EXCEPT !.delivered = TRUE, !.err = ResponseError(response)]
    ELSE [Step(IF cacheAllowed
               THEN [h EXCEPT !.cache = CacheSet(@, getCacheKey("settings"),
                                                 response.custom, now)]
               ELSE h, cacheAllowed)
            EXCEPT !.delivered = TRUE, !.settings = response.custom]

\* the request.get callback of getAppSettings; cacheAllowed is the value the
\* call took before the request
getAppSettingsResponse(h, now, cacheAllowed, response) ==
    IF ResponseError(response) # ""
    THEN [Step(h, cacheAllowed) EXCEPT !.delivered = TRUE, !.err = ResponseError(response)]
    ELSE [Step(IF cacheAllowed
               THEN [h EXCEPT !.cache = CacheSet(@, getCacheKey("settings"),
                                                 response.custom, now)]
               ELSE h, cacheAllowed)
            EXCEPT !.delivered = TRUE, !.settings = response.custom]

\* variant: the settings are not looked at before the request
setAppSettings_unchecked(h, hasSettings) ==
    [Step(h, isCacheAllowed(h)) EXCEPT !.requested = TRUE, !.missing = ~hasSettings]

\* InnoHelper.prototype.setAppSettings up to its return
setAppSettings(h, hasSettings) ==
    IF ~hasSettings
    THEN [Step(h, isCacheAllowed(h)) EXCEPT
            !.delivered = TRUE, !.err = "Settings not found", !.missing = TRUE]
    ELSE [Step(h, isCacheAllowed(h)) EXCEPT !.requested = TRUE]

\* variant: the response is not cached
setAppSettingsResponse_notCached(h, now, cacheAllowed, response) ==
    IF ResponseError(response) # ""
    THEN [Step(h, cacheAllowed) EXCEPT !.delivered = TRUE, !.err = ResponseError(response)]
    ELSE [Step(h, cacheAllowed) EXCEPT !.delivered = TRUE, !.settings = response.custom]

\* the request.put callback of setAppSettings: self.cache.set on a helper
\* without a Cache is a TypeError, and the callback is not called
setAppSettingsResponse(h, now, cacheAllowed, response) ==
    IF ResponseError(response) # ""
    THEN [Step(h, cacheAllowed) EXCEPT !.delivered = TRUE, !.err = ResponseError(response)]
    ELSE IF cacheAllowed /\ h.cache.null
    THEN [Step(h, cacheAllowed) EXCEPT !.thrown = "TypeError"]
    ELSE [Step(IF cacheAllowed
               THEN [h EXCEPT !.cache = CacheSet(@, getCacheKey("settings"),
                                                 response.custom, now)]
               ELSE h, cacheAllowed)
            EXCEPT !.delivered = TRUE, !.settings = response.custom]

\* ------------------------------------------- InnoHelper of src/index.js
\* 'settings' + this.config.appName
IndexSettingsKey == "settings" \o AppName

\* the cache of require('./libs/cache'), one for all helpers of the module:
\* nothing is set, and a value lives one minute
IndexCache ==
    [null |-> FALSE, cachedTime |-> 60, cache |-> [k \in {IndexSettingsKey} |-> NoEntry]]

\* the module after loading: the cache, shared by the helpers constructed
\* later; a helper itself holds its config only
IndexModule == [noCache |-> FALSE, cache |-> IndexCache]

\* allowCache = !this.config.noCache
IndexAllowCache(config) == ~(config.hasNoCache /\ config.noCache)

\* variant: the cache is read when caching is allowed
IndexGetAppSettings_readIfAllowed(h, config, now) ==
    IF IndexAllowCache(config) /\ CacheGet(h.cache, IndexSettingsKey, now) # Undefined
    THEN [Step(h, IndexAllowCache(config)) EXCEPT
            !.read = TRUE, !.delivered = TRUE,
            !.settings = CacheGet(h.cache, IndexSettingsKey, now)]
    ELSE [Step(h, IndexAllowCache(config)) EXCEPT
            !.read = IndexAllowCache(config), !.requested = TRUE]

\* InnoHelper.prototype.getAppSettings of src/index.js up to its return, on
\* a helper constructed with config
IndexGetAppSettings(h, config, now) ==
    IF ~IndexAllowCache(config) /\ CacheGet(h.cache, IndexSettingsKey, now) # Undefined
    THEN [Step(h, IndexAllowCache(config)) EXCEPT
            !.read = TRUE, !.delivered = TRUE,
            !.settings = CacheGet(h.cache, IndexSettingsKey, now)]
    ELSE [Step(h, IndexAllowCache(config)) EXCEPT
            !.read = ~IndexAllowCache(config), !.requested = TRUE]

\* checkErrors followed by validateObject(response.body, 'custom') of
\* src/index.js
IndexResponseError(response) ==
    IF response.error THEN "request error"
    ELSE IF ~response.hasCustom THEN "CUSTOM not found"
    ELSE ""

\* its request.get callback; allowCache is the value the call took
IndexGetAppSettingsResponse(h, now, allowCache, response) ==
    IF IndexResponseError(response) # ""
    THEN [Step(h, allowCache) EXCEPT !.delivered = TRUE, !.err = IndexResponseError(response)]
    ELSE [Step(IF allowCache
               THEN [h EXCEPT !.cache = CacheSet(@, IndexSettingsKey, response.custom, now)]
               ELSE h, allowCache)
            EXCEPT !.delivered = TRUE, !.settings = response.custom]

\* InnoHelper.prototype.setAppSettings of src/index.js up to its return
IndexSetAppSettings(h, config, hasSettings) ==
    IF ~hasSettings
    THEN [Step(h, IndexAllowCache(config)) EXCEPT
            !.delivered = TRUE, !.err = "Settings not found", !.missing = TRUE]
    ELSE [Step(h, IndexAllowCache(config)) EXCEPT !.requested = TRUE]

\* its request.put callback: the cached settings are expired
IndexSetAppSettingsResponse(h, now, allowCache, response) ==
    IF IndexResponseError(response) # ""
    THEN [Step(h, allowCache) EXCEPT !.delivered = TRUE, !.err = IndexResponseError(response)]
    ELSE [Step([h EXCEPT !.cache = CacheExpire(@, IndexSettingsKey)], allowCache)
            EXCEPT !.delivered = TRUE, !.settings = response.custom]

\* ------------------------------------------------- constructor configs
\* arrays of n {name, value} entries with distinct names: the keys of one
\* attr.data object in insertion order
RECURSIVE DataEntries(_, _)
DataEntries(n, names) ==
    IF n = 0 THEN {<<>>}
    ELSE UNION {{<<[name |-> nm, value |-> v]>> \o rest :
                    v \in Values, rest \in DataEntries(n - 1, names \ {nm})} :
                nm \in names}

\* {collectApp, section, data} entries with n names
AttrGroups(n) ==
    [collectApp : CollectApps, section : Sections, data : DataEntries(n, Names)]

\* config.attributes arrays of total size n
RECURSIVE AttrConfigs(_)
AttrConfigs(n) ==
    IF n = 0 THEN {<<>>}
    ELSE UNION {{<<g>> \o rest : g \in AttrGroups(k), rest \in AttrConfigs(n - k)} :
                k \in 1..n}

\* session data objects with n keys
DataObjects(n) ==
    {d \in [DataKeys -> Values \cup {Undefined}] :
        Cardinality({k \in DataKeys : d[k] # Undefined}) = n}

EventConfigs == [id : EvtIds, definitionId : DefIds, data : Values]

\* raw sessions of size n: the session, its data keys and its events
SessionConfigs(n) ==
    UNION {[id : SessIds, section : Sections, collectApp : {""},
            data : DataObjects(d), events : [1..(n - 1 - d) -> EventConfigs],
            createdAt : {0}, modifiedAt : {0}] :
           d \in 0..(n - 1)}

\* config.sessions arrays of total size n
RECURSIVE SessionsConfigs(_)
SessionsConfigs(n) ==
    IF n = 0 THEN {<<>>}
    ELSE UNION {{<<s>> \o rest : s \in SessionConfigs(k), rest \in SessionsConfigs(n - k)} :
                k \in 1..n}

\* Profile configs of size at most n with an id from ids
ProfileConfigs(n, ids) ==
    UNION {[id : ids, attributes : AttrConfigs(a), sessions : SessionsConfigs(s)] :
           <<a, s>> \in {x \in (0..n) \X (0..n) : x[1] + x[2] <= n}}

\* ----------------------------------------------------------- loadProfile
\* the config new Profile(null) works with: no id, no attributes, no sessions
NoProfileConfig == [id |-> "", attributes |-> <<>>, sessions |-> <<>>]

\* what request.get hands the callback of loadProfile: a transport error, a
\* status other than 200, a response without body, a body without
\* "profile", a body whose profile is a string, is null, or is an object
ProfileResponses ==
    [kind : {"error", "status", "empty", "noProfile", "notObject", "null"},
     profile : {NoProfileConfig}]
    \cup [kind : {"profile"}, profile : ProfileConfigs(MaxSmall, ProfileIds)]

\* InnoHelper.prototype.checkErrors(error, response), success code 200
checkErrors(response) ==
    IF response.kind = "error" THEN "request error"
    ELSE IF response.kind = "empty" THEN "Response does not contain data"
    ELSE IF response.kind = "status" THEN "Server failed with status code"
    ELSE ""

\* data.hasOwnProperty('profile') && typeof data.profile === 'object': null
\* is an object
hasProfileObject(response) == response.kind \in {"profile", "null"}

\* profile.resetDirty() inside the try: src/libs/profile.js defines no
\* resetDirty, so the call is a TypeError there; with a Profile that defines
\* it the call returns
resetDirty(defined) == IF defined THEN "" ELSE "TypeError"

\* what a callback of loadProfile is called with: (error, profile), profile
\* being "" for null, and the machine then
Loaded(m, error, profile) == [m |-> m, error |-> error, profile |-> profile]

\* variant: a body without a profile object is an error
loadProfileResponse_profileRequired(m, response, defined) ==
    IF checkErrors(response) # "" THEN Loaded(m, checkErrors(response), "")
    ELSE IF hasProfileObject(response)
    THEN Then(Profile(m, "remote", response.profile),
              LAMBDA m1 : Loaded(m1, resetDirty(defined), "remote"))
    ELSE Loaded(m, "PROFILE not found", "")

\* the request.get callback of loadProfile up to callback(error, profile);
\* the loaded Profile is held in "remote"
loadProfileResponse(m, response, defined) ==
    IF checkErrors(response) # "" THEN Loaded(m, checkErrors(response), "")
    ELSE IF hasProfileObject(response)
    THEN Then(Profile(m, "remote", response.profile),
              LAMBDA m1 : Loaded(m1, resetDirty(defined), "remote"))
    ELSE Loaded(m, "", "")

\* what one step of loadProfile or refreshLocalProfile did: the machine
\* after it, whether it issued a request, called the caller's callback
\* (with err and profile, "" for null), or threw
LoadStep(m) ==
    [m |-> m, requested |-> FALSE, delivered |-> FALSE, err |-> "",
     profile |-> "", thrown |-> ""]

\* InnoHelper.prototype.loadProfile up to its return
loadProfile(m) == [LoadStep(m) EXCEPT !.requested = TRUE]

\* loadProfile's callback followed by the caller's
loadProfileDelivered(m, response, defined) ==
    Then(loadProfileResponse(m, response, defined), LAMBDA l :
       [LoadStep(l.m) EXCEPT !.delivered = TRUE, !.err = l.error,
                             !.profile = l.profile])

\* InnoHelper.prototype.refreshLocalProfile up to its return
refreshLocalProfile(m, isProfile) ==
    IF ~isProfile
    THEN [LoadStep(m) EXCEPT
            !.delivered = TRUE,
            !.err = "Argument \"profile\" should be a Profile instance"]
    ELSE [LoadStep(m) EXCEPT !.requested = TRUE]

\* profile.merge(loadedProfile), loadedProfile being "" for null
mergeLoaded(m, p, loadedProfile) ==
    IF loadedProfile = ""
    THEN [m EXCEPT !.err = "Argument \"profile\" should be a Profile instance"]
    ELSE merge(m, p, loadedProfile)

\* the callback refreshLocalProfile gives loadProfile, after loadProfile's
\* own: an exception of merge leaves the handler
refreshLocalProfileResponse(m, p, response, defined) ==
    Then(loadProfileResponse(m, response, defined), LAMBDA l :
       IF l.error # ""
       THEN [LoadStep(l.m) EXCEPT !.delivered = TRUE, !.err = l.error, !.profile = p]
       ELSE Then(mergeLoaded(l.m, p, l.profile), LAMBDA m1 :
               IF m1.err # ""
               THEN [LoadStep([m1 EXCEPT !.err = ""]) EXCEPT !.thrown = m1.err]
               ELSE [LoadStep(m1) EXCEPT !.delivered = TRUE, !.profile = p]))

\* ------------------------------------------------------------ the program
\* the heaps and variables as the operators above take them
Machine ==
    [A |-> attrHeap, S |-> sessHeap, E |-> evtHeap, P |-> prof,
     G |-> nextGen, now |-> clock, err |-> "", ret |-> Null]

EmptyMachine ==
    [A |-> <<>>, S |-> <<>>, E |-> <<>>,
     P |-> [p \in PROFILES |-> [id |-> "", attributes |-> <<>>, sessions |-> <<>>]],
     G |-> 1, now |-> 1, err |-> "", ret |-> Null]

Snapshot(m) == [A |-> m.A, S |-> m.S, E |-> m.E, P |-> m.P]

\* local = new Profile(cl); remote = new Profile(cr)
Constructed(cl, cr) ==
      \E ml \in {Profile(EmptyMachine, "local", cl)} :
        \E m \in {Profile(ml, "remote", cr)} :
           /\ attrHeap = m.A
           /\ sessHeap = m.S
           /\ evtHeap = m.E
           /\ prof = m.P
           /\ nextGen = m.G
           /\ clock = m.now
           /\ last = [op |-> "new", err |-> "", self |-> "", ret |-> "", ref |-> Null]
           /\ before = Snapshot(m)
           /\ steps = 0
           /\ generator = NoGenerator

\* helper = new InnoHelper(config), nothing requested yet
HelperConstructed(config) ==
    /\ helper = InnoHelper(config)
    /\ pending = {}
    /\ trace = <<>>

\* a config without noCache
DefaultHelperConfig == [hasNoCache |-> FALSE, noCache |-> FALSE]

InitWith(localConfigs, remoteConfigs) ==
    \E cl \in localConfigs, cr \in remoteConfigs :
       /\ Constructed(cl, cr)
       /\ calls = <<>>
       /\ HelperConstructed(DefaultHelperConfig)

Init ==
    InitWith(ProfileConfigs(MaxSize, {"p1"}), ProfileConfigs(MaxSmall, {"p1"}))

InitMerge ==
    InitWith(ProfileConfigs(MaxSize, {"p1"}), ProfileConfigs(MaxSize, ProfileIds))

\* the state after an operation that left the machine m
Done(m) ==
    /\ attrHeap' = m.A
    /\ sessHeap' = m.S
    /\ evtHeap' = m.E
    /\ prof' = m.P
    /\ nextGen' = m.G
    /\ clock' = clock
    /\ before' = [A |-> attrHeap, S |-> sessHeap, E |-> evtHeap, P |-> prof]
    /\ steps' = steps + 1
    /\ generator' = generator
    /\ UNCHANGED helperVars

CanGenerate == nextGen <= Len(GenIds)

\* local.merge(remote)
Merge ==
    /\ steps < MaxSteps
    /\ \E m0 \in {Machine} : \E m \in {merge(m0, "local", "remote")} :
          /\ Done(m)
          /\ last' = [op |-> "merge", err |-> m.err, self |-> "local",
                      ret |-> IF m.err = "" THEN m.ret ELSE "", ref |-> Null]
          /\ calls' = calls

AttributeInputs ==
    [collectApp : CollectApps, section : Sections, name : Names, value : Values]

\* p.setAttribute(config)
SetAttribute(p, config) ==
    /\ steps < MaxSteps
    /\ \E m0 \in {Machine} : \E m \in {setAttributes(m0, p, <<Raw(config)>>)} :
          /\ Done(m)
          /\ last' = [op |-> "setAttribute", err |-> m.err, self |-> p,
                      ret |-> IF m.err = "" THEN m.ret ELSE "", ref |-> Null]
          /\ calls' = calls

\* arrays of at most MaxList raw attributes
AttributeLists == UNION {[1..n -> AttributeInputs] : n \in 0..MaxList}

\* p.setAttributes(attributes)
SetAttributes(p, attributes) ==
    /\ Len(calls) < MaxCalls
    /\ \E m0 \in {Machine} :
       \E m \in {setAttributes(m0, p, [i \in 1..Len(attributes) |-> Raw(attributes[i])])} :
          /\ Done(m)
          /\ last' = [op |-> "setAttributes", err |-> m.err, self |-> p,
                      ret |-> IF m.err = "" THEN m.ret ELSE "", ref |-> Null]
          /\ calls' = Append(calls, [op |-> "setAttributes", arg |-> attributes])

SessionInputs ==
    [id : {"s1", ""}, section : Sections, collectApp : {""}, data : DataObjects(0),
     events : {<<>>}, createdAt : {0}, modifiedAt : {0}]

\* p.setSession(config)
SetSession(p, config) ==
    /\ steps < MaxSteps
    /\ CanGenerate
    /\ \E m0 \in {Machine} : \E m \in {setSession(m0, p, FALSE, Null, config)} :
          /\ Done(m)
          /\ last' = [op |-> "setSession", err |-> m.err, self |-> p, ret |-> "",
                      ref |-> IF m.err = "" THEN m.ret ELSE Null]
          /\ calls' = calls

\* p.setSession(q.getSessions()[i]): the argument is a Session instance
SetSessionInstance(p, q, i) ==
    /\ steps < MaxSteps
    /\ i \in 1..Len(prof[q].sessions)
    /\ \E m0 \in {Machine} :
       \E m \in {setSession(m0, p, TRUE, prof[q].sessions[i], NoSessionConfig)} :
          /\ Done(m)
          /\ last' = [op |-> "setSession", err |-> m.err, self |-> p, ret |-> "",
                      ref |-> IF m.err = "" THEN m.ret ELSE Null]
          /\ calls' = Append(calls, [op |-> "setSession", arg |-> prof[q].sessions[i]])

\* p.getSessions()[i].setData(data)
SetData(p, i, data) ==
    /\ steps < MaxSteps
    /\ i \in 1..Len(prof[p].sessions)
    /\ \E m0 \in {Machine} : \E m \in {SessionSetData(m0, m0.P[p].sessions[i], data)} :
          /\ Done(m)
          /\ last' = [op |-> "setData", err |-> m.err, self |-> p, ret |-> "",
                      ref |-> m0.P[p].sessions[i]]
          /\ calls' = Append(calls, [op |-> "setData", arg |-> data, index |-> i])

\* p.getLastSession()
GetLastSession(p) ==
    /\ steps < MaxSteps
    /\ \E m0 \in {Machine} :
       \E first \in IF Len(prof[p].sessions) # 0 THEN SortedFirst(m0, p) ELSE {Null} :
       \E m \in {getLastSession(m0, p, first)} :
          /\ Done(m)
          /\ last' = [op |-> "getLastSession", err |-> m.err, self |-> p, ret |-> "",
                      ref |-> m.ret]
          /\ calls' = calls

\* p.serialize()
Serialize(p) ==
    /\ steps < MaxSteps
    /\ \E m0 \in {Machine} : \E m \in {serialize(m0, p)} :
          /\ Done(m)
          /\ last' = [op |-> "serialize", err |-> m.err, self |-> p, ret |-> "",
                      ref |-> Null]
          /\ calls' = Append(calls, [op |-> "serialize", self |-> p, err |-> m.err,
                                     ret |-> IF m.err = "" THEN m.ret ELSE Null])

\* remote = new Profile(local.serialize())
Reconstruct ==
    /\ steps < MaxSteps
    /\ \E m0 \in {Machine} : \E ms \in {serialize(m0, "local")} :
       \E m \in {IF ms.err # "" THEN ms ELSE Profile(ms, "remote", ms.ret)} :
          /\ Done(m)
          /\ last' = [op |-> "new", err |-> m.err, self |-> "remote",
                      ret |-> IF m.err = "" THEN m.ret ELSE "", ref |-> Null]
          /\ calls' = Append(calls, [op |-> "new", self |-> "remote", err |-> m.err,
                                     ret |-> IF m.err = "" THEN ms.ret ELSE Null])

EventInputs == [id : {"e1", ""}, definitionId : {"d1", ""}, data : Values]

\* p.getSessions()[i].addEvent(config)
AddEvent(p, i, config) ==
    /\ steps < MaxSteps
    /\ CanGenerate
    /\ i \in 1..Len(prof[p].sessions)
    /\ \E m0 \in {Machine} :
       \E m \in {addEvent(m0, m0.P[p].sessions[i], FALSE, Null, config)} :
          /\ Done(m)
          /\ last' = [op |-> "addEvent", err |-> m.err, self |-> p, ret |-> "",
                      ref |-> IF m.err = "" THEN m.ret ELSE Null]
          /\ calls' = calls

Next ==
    \/ Merge
    \/ \E config \in AttributeInputs : SetAttribute("local", config)
    \/ \E config \in SessionInputs : SetSession("local", config)
    \/ \E i \in 1..MaxSize, config \in EventInputs : AddEvent("local", i, config)

Spec == Init /\ [][Next]_vars

\* Profile configs of size at most n with attributes only
AttributeProfileConfigs(n) ==
    [id : {"p1"}, attributes : UNION {AttrConfigs(a) : a \in 0..n}, sessions : {<<>>}]

InitAttributes ==
    InitWith(AttributeProfileConfigs(MaxSize), AttributeProfileConfigs(0))

NextAttributes == \E attributes \in AttributeLists : SetAttributes("local", attributes)

\* construction followed by setAttributes calls
SpecAttributes == InitAttributes /\ [][NextAttributes]_vars

\* Profile configs of size at most n with sessions only
SessionProfileConfigs(n) ==
    [id : {"p1"}, attributes : {<<>>}, sessions : UNION {SessionsConfigs(k) : k \in 0..n}]

\* construction, recorded as the first call
InitData ==
    \E cl \in SessionProfileConfigs(MaxSize), cr \in SessionProfileConfigs(0) :
       /\ Constructed(cl, cr)
       /\ calls = <<[op |-> "new", arg |-> cl.sessions]>>
       /\ HelperConstructed(DefaultHelperConfig)

NextData ==
    \E i \in 1..MaxSize, data \in UNION {DataObjects(n) : n \in 0..Cardinality(DataKeys)} :
       SetData("local", i, data)

\* construction followed by setData calls on the sessions
SpecData == InitData /\ [][NextData]_vars

\* local and remote hold sessions only
InitSession ==
    InitWith(SessionProfileConfigs(MaxSize), SessionProfileConfigs(MaxSmall))

NextSession ==
    \/ \E config \in UNION {SessionConfigs(n) : n \in 1..MaxSize} :
          steps < MaxCalls /\ SetSession("local", config)
    \/ \E q \in PROFILES, i \in 1..MaxSize :
          steps < MaxCalls /\ SetSessionInstance("local", q, i)

\* construction followed by setSession calls with raw sessions and with
\* Session instances
SpecSession == InitSession /\ [][NextSession]_vars

\* modifiedAt values of a session config; 0 is a config without modifiedAt
ModifiedAts == {0, 2, 3}

\* config.sessions arrays of at most n sessions without data and events
RECURSIVE TimedSessionsConfigs(_)
TimedSessionsConfigs(n) ==
    IF n = 0 THEN {<<>>}
    ELSE TimedSessionsConfigs(n - 1) \cup
         {<<c>> \o rest :
            c \in [id : SessIds, section : Sections, collectApp : {""},
                   data : DataObjects(0), events : {<<>>}, createdAt : {0},
                   modifiedAt : ModifiedAts],
            rest \in {r \in TimedSessionsConfigs(n - 1) : Len(r) = n - 1}}

InitLast ==
    InitWith([id : {"p1"}, attributes : {<<>>}, sessions : TimedSessionsConfigs(MaxSize)],
             SessionProfileConfigs(0))

NextLast == GetLastSession("local")

\* construction followed by getLastSession calls
SpecLast == InitLast /\ [][NextLast]_vars

InitSerialize ==
    InitWith(ProfileConfigs(MaxSize, {"p1"}), ProfileConfigs(0, {"p1"}))

NextSerialize ==
    \/ Serialize("local")
    \/ Reconstruct
    \/ Serialize("remote")

\* construction followed by serialize calls and a reconstruction
SpecSerialize == InitSerialize /\ [][NextSerialize]_vars

\* ------------------------------------------------ the helper's steps
\* the record of one step of the helper: what was called (op, method, id of
\* the call it belongs to), when, the helper before and after, what the step
\* did, and for a direct call on helper.cache its key, value and result
Entry(op, method, id, r) ==
    [op |-> op, method |-> method, id |-> id, time |-> clock,
     pre |-> helper, post |-> r.helper, allowed |-> r.allowed, read |-> r.read,
     requested |-> r.requested, delivered |-> r.delivered, err |-> r.err,
     settings |-> r.settings, thrown |-> r.thrown, missing |-> r.missing,
     response |-> r.response,
     key |-> "", value |-> Undefined, ret |-> Undefined]

\* a step r of the call with this id, which leaves a request in flight when
\* it issued one
Stepped(op, method, id, r, inFlight) ==
    /\ helper' = r.helper
    /\ pending' = inFlight
    /\ trace' = Append(trace, Entry(op, method, id, r))
    /\ clock' = clock
    /\ UNCHANGED profileVars

\* helper.getAppSettings(callback)
GetAppSettings ==
    /\ Len(trace) < MaxTrace
    /\ \E r \in {getAppSettings(helper, clock)} :
          /\ r.requested => Cardinality(pending) < MaxPending
          /\ Stepped("call", "get", Len(trace) + 1, r,
                     IF r.requested
                     THEN pending \cup {[id |-> Len(trace) + 1, method |-> "get",
                                         cacheAllowed |-> r.allowed]}
                     ELSE pending)

\* helper.setAppSettings(settings, callback)
SetAppSettings(hasSettings) ==
    /\ Len(trace) < MaxTrace
    /\ \E r \in {setAppSettings(helper, hasSettings)} :
          /\ r.requested => Cardinality(pending) < MaxPending
          /\ Stepped("call", "put", Len(trace) + 1, r,
                     IF r.requested
                     THEN pending \cup {[id |-> Len(trace) + 1, method |-> "put",
                                         cacheAllowed |-> r.allowed]}
                     ELSE pending)

\* request.get calls back the getAppSettings call req
GetAppSettingsResponse(req, response) ==
    /\ Len(trace) < MaxTrace
    /\ req \in pending
    /\ req.method = "get"
    /\ \E r \in {getAppSettingsResponse(helper, clock, req.cacheAllowed, response)} :
          Stepped("response", "get", req.id, [r EXCEPT !.response = response],
                  pending \ {req})

\* request.put calls back the setAppSettings call req
SetAppSettingsResponse(req, response) ==
    /\ Len(trace) < MaxTrace
    /\ req \in pending
    /\ req.method = "put"
    /\ \E r \in {setAppSettingsResponse(helper, clock, req.cacheAllowed, response)} :
          Stepped("response", "put", req.id, [r EXCEPT !.response = response],
                  pending \ {req})

\* helper.setCacheAllowed(value)
SetCacheAllowed(value) ==
    /\ Len(trace) < MaxTrace
    /\ \E h \in {setCacheAllowed(helper, value)} :
          Stepped("setCacheAllowed", "", 0, Step(h, isCacheAllowed(h)), pending)

\* seconds that pass between two steps
Ticks == {1, 599}

\* time passes
Tick(d) ==
    /\ Len(trace) < MaxTrace
    /\ clock' = clock + d
    /\ trace' = Append(trace, Entry("tick", "", 0, Step(helper, isCacheAllowed(helper))))
    /\ UNCHANGED <<helper, pending>>
    /\ UNCHANGED profileVars

\* a direct call on helper.cache, which exists
CacheCalled(op, h, name, value, ret) ==
    /\ Len(trace) < MaxTrace
    /\ ~helper.cache.null
    /\ helper' = h
    /\ trace' = Append(trace, [Entry(op, "", 0, Step(h, isCacheAllowed(h)))
                                 EXCEPT !.key = name, !.value = value, !.ret = ret])
    /\ clock' = clock
    /\ UNCHANGED pending
    /\ UNCHANGED profileVars

\* helper.cache.set(name, value)
CacheSetCall(name, value) ==
    CacheCalled("cache.set", [helper EXCEPT !.cache = CacheSet(@, name, value, clock)],
                name, value, Undefined)

\* helper.cache.get(name)
CacheGetCall(name) ==
    CacheCalled("cache.get", helper, name, Undefined, CacheGet(helper.cache, name, clock))

\* helper.cache.expire(name)
CacheExpireCall(name) ==
    CacheCalled("cache.expire", [helper EXCEPT !.cache = CacheExpire(@, name)],
                name, Undefined, Undefined)

\* helper.cache.clearCache()
ClearCache ==
    CacheCalled("cache.clearCache", [helper EXCEPT !.cache = CacheClearCache(@)],
                "", Undefined, Undefined)

\* configs with and without noCache
HelperConfigs == {DefaultHelperConfig} \cup [hasNoCache : {TRUE}, noCache : BOOLEAN]

\* helper = new InnoHelper(config); the Profiles are empty
InitHelper ==
    \E cl \in ProfileConfigs(0, {"p1"}), config \in HelperConfigs :
       /\ Constructed(cl, cl)
       /\ calls = <<>>
       /\ HelperConstructed(config)

NextSettings ==
    \/ GetAppSettings
    \/ \E hasSettings \in BOOLEAN : SetAppSettings(hasSettings)
    \/ \E req \in pending, response \in Responses : GetAppSettingsResponse(req, response)
    \/ \E req \in pending, response \in Responses : SetAppSettingsResponse(req, response)
    \/ \E value \in BOOLEAN : SetCacheAllowed(value)
    \/ \E d \in Ticks : Tick(d)
    \/ ClearCache

\* a helper, its settings calls and their responses, in any order
SpecSettings == InitHelper /\ [][NextSettings]_vars

NextCache ==
    \/ \E name \in CacheKeys, value \in Values : CacheSetCall(name, value)
    \/ \E name \in CacheKeys : CacheGetCall(name)
    \/ \E name \in CacheKeys : CacheExpireCall(name)
    \/ ClearCache
    \/ \E d \in Ticks : Tick(d)

\* a helper and direct calls on its Cache
SpecCache == InitHelper /\ [][NextCache]_vars

\* construction followed by merges only
NextMerge == Merge

SpecMerge == InitMerge /\ [][NextMerge]_vars

\* ----------------------------------------------------- the IdGenerator
\* the record of one step on the IdGenerator: the call, the length argument
\* of the construction concerned, the error thrown, the id returned
IdEntry(op, arg, err, id) == [op |-> op, arg |-> arg, err |-> err, id |-> id]

\* generator = new IdGenerator(length); when it throws generator is kept
NewIdGenerator(length, choice) ==
    /\ Len(trace) < MaxIds
    /\ \E g \in {IdGenerator(length, choice)} :
          /\ generator' = IF g.err = ""
                           THEN [constructed |-> TRUE, length |-> g.length, arg |-> length]
                           ELSE generator
          /\ trace' = Append(trace, IdEntry("new", length, g.err, <<>>))
    /\ UNCHANGED <<attrHeap, sessHeap, evtHeap, prof, nextGen, clock, last, before,
                   steps, calls, helper, pending>>

\* generator.getId()
GetId(id) ==
    /\ Len(trace) < MaxIds
    /\ generator.constructed
    /\ id \in IdStrings(generator.length)
    /\ trace' = Append(trace, IdEntry("getId", generator.arg, "", id))
    /\ UNCHANGED <<attrHeap, sessHeap, evtHeap, prof, nextGen, clock, last, before,
                   steps, calls, helper, pending, generator>>

\* no IdGenerator yet; the Profiles are empty
InitIdGenerator == InitWith(ProfileConfigs(0, {"p1"}), ProfileConfigs(0, {"p1"}))

NextIdGenerator ==
    \/ \E length \in Lengths, choice \in IdChoices : NewIdGenerator(length, choice)
    \/ \E id \in IdStrings(DefaultLength) \cup UNION {IdStrings(n) : n \in 0..MaxIdLength} :
          GetId(id)

\* constructions of IdGenerators and calls of getId
SpecIdGenerator == InitIdGenerator /\ [][NextIdGenerator]_vars

\* construction, recorded with its configs, followed by merges only
InitMergeTwice ==
    \E cl \in ProfileConfigs(MaxSmall, {"p1"}),
       cr \in ProfileConfigs(MaxSize, ProfileIds) \cup SessionProfileConfigs(MaxSize + 1) :
       /\ Constructed(cl, cr)
       /\ calls = <<[op |-> "new", local |-> cl, remote |-> cr]>>
       /\ HelperConstructed(DefaultHelperConfig)

\* local.merge(remote); local.merge(remote)
SpecMergeTwice == InitMergeTwice /\ [][NextMerge]_vars

\* ------------------------------------ the helpers of src/index.js
\* getAppSettings(callback) on a helper constructed with config
IndexGetAppSettingsCall(config) ==
    /\ Len(trace) < MaxTrace
    /\ \E r \in {IndexGetAppSettings(helper, config, clock)} :
          /\ r.requested => Cardinality(pending) < MaxPending
          /\ Stepped("call", "get", Len(trace) + 1, r,
                     IF r.requested
                     THEN pending \cup {[id |-> Len(trace) + 1, method |-> "get",
                                         cacheAllowed |-> r.allowed]}
                     ELSE pending)

\* setAppSettings(settings, callback) on a helper constructed with config
IndexSetAppSettingsCall(config, hasSettings) ==
    /\ Len(trace) < MaxTrace
    /\ \E r \in {IndexSetAppSettings(helper, config, hasSettings)} :
          /\ r.requested => Cardinality(pending) < MaxPending
          /\ Stepped("call", "put", Len(trace) + 1, r,
                     IF r.requested
                     THEN pending \cup {[id |-> Len(trace) + 1, method |-> "put",
                                         cacheAllowed |-> r.allowed]}
                     ELSE pending)

\* request.get calls back the getAppSettings call req
IndexGetResponse(req, response) ==
    /\ Len(trace) < MaxTrace
    /\ req \in pending
    /\ req.method = "get"
    /\ \E r \in {IndexGetAppSettingsResponse(helper, clock, req.cacheAllowed, response)} :
          Stepped("response", "get", req.id, [r EXCEPT !.response = response],
                  pending \ {req})

\* request.put calls back the setAppSettings call req
IndexSetResponse(req, response) ==
    /\ Len(trace) < MaxTrace
    /\ req \in pending
    /\ req.method = "put"
    /\ \E r \in {IndexSetAppSettingsResponse(helper, clock, req.cacheAllowed, response)} :
          Stepped("response", "put", req.id, [r EXCEPT !.response = response],
                  pending \ {req})

\* the module of src/index.js is loaded; the Profiles are empty
InitIndex ==
    \E cl \in ProfileConfigs(0, {"p1"}) :
       /\ Constructed(cl, cl)
       /\ calls = <<>>
       /\ helper = IndexModule
       /\ pending = {}
       /\ trace = <<>>

NextIndex ==
    \/ \E config \in HelperConfigs : IndexGetAppSettingsCall(config)
    \/ \E config \in HelperConfigs, hasSettings \in BOOLEAN :
          IndexSetAppSettingsCall(config, hasSettings)
    \/ \E req \in pending, response \in Responses : IndexGetResponse(req, response)
    \/ \E req \in pending, response \in Responses : IndexSetResponse(req, response)
    \/ \E d \in Ticks : Tick(d)

\* the helpers of src/index.js, their settings calls and the responses, in
\* any order
SpecIndex == InitIndex /\ [][NextIndex]_vars

\* ------------------------------------- loadProfile, refreshLocalProfile
\* the record of one step of a load: what was called, the response it was
\* called back with, and what the step did
LoadEntry(op, method, id, r, response) ==
    [op |-> op, method |-> method, id |-> id, requested |-> r.requested,
     delivered |-> r.delivered, err |-> r.err, profile |-> r.profile,
     thrown |-> r.thrown, response |-> response]

\* the response of a step that is not a request's callback
NoProfileResponse == [kind |-> "", profile |-> NoProfileConfig]

\* a step r of the call with this id
LoadStepped(op, method, id, r, response, inFlight) ==
    /\ attrHeap' = r.m.A
    /\ sessHeap' = r.m.S
    /\ evtHeap' = r.m.E
    /\ prof' = r.m.P
    /\ nextGen' = r.m.G
    /\ before' = [A |-> attrHeap, S |-> sessHeap, E |-> evtHeap, P |-> prof]
    /\ pending' = inFlight
    /\ trace' = Append(trace, LoadEntry(op, method, id, r, response))
    /\ clock' = clock
    /\ UNCHANGED <<last, steps, calls, helper, generator>>

\* the calls made so far
LoadCalls == {i \in 1..Len(trace) : trace[i].op = "call"}

\* helper.loadProfile(profileId, callback)
LoadProfile ==
    /\ Cardinality(LoadCalls) < MaxLoads
    /\ Len(trace) < MaxTrace
    /\ Cardinality(pending) < MaxPending
    /\ \E r \in {loadProfile(Machine)} :
          LoadStepped("call", "load", Len(trace) + 1, r, NoProfileResponse,
                      pending \cup {[id |-> Len(trace) + 1, method |-> "load",
                                     cacheAllowed |-> FALSE]})

\* helper.refreshLocalProfile(local, callback), or with an argument that is
\* no Profile
RefreshLocalProfile(isProfile) ==
    /\ Cardinality(LoadCalls) < MaxLoads
    /\ Len(trace) < MaxTrace
    /\ \E r \in {refreshLocalProfile(Machine, isProfile)} :
          /\ r.requested => Cardinality(pending) < MaxPending
          /\ LoadStepped("call", "refresh", Len(trace) + 1, r, NoProfileResponse,
                         IF r.requested
                         THEN pending \cup {[id |-> Len(trace) + 1, method |-> "refresh",
                                             cacheAllowed |-> FALSE]}
                         ELSE pending)

\* request.get calls back the loadProfile call req
LoadProfileResponse(req, response, defined) ==
    /\ Len(trace) < MaxTrace
    /\ req \in pending
    /\ req.method = "load"
    /\ CanGenerate
    /\ \E r \in {loadProfileDelivered(Machine, response, defined)} :
          LoadStepped("response", "load", req.id, r, response, pending \ {req})

\* request.get calls back the loadProfile call of the refreshLocalProfile
\* call req
RefreshLocalProfileResponse(req, response, defined) ==
    /\ Len(trace) < MaxTrace
    /\ req \in pending
    /\ req.method = "refresh"
    /\ CanGenerate
    /\ \E r \in {refreshLocalProfileResponse(Machine, "local", response, defined)} :
          LoadStepped("response", "refresh", req.id, r, response, pending \ {req})

\* local = new Profile(config); nothing is loaded yet
InitLoad ==
    InitWith(ProfileConfigs(MaxSmall, {"p1"}), {NoProfileConfig})

NextLoad ==
    \/ LoadProfile
    \/ \E isProfile \in BOOLEAN : RefreshLocalProfile(isProfile)
    \/ \E req \in pending, response \in ProfileResponses, defined \in BOOLEAN :
          LoadProfileResponse(req, response, defined)
    \/ \E req \in pending, response \in ProfileResponses, defined \in BOOLEAN :
          RefreshLocalProfileResponse(req, response, defined)

\* a helper, its profile loads and their responses, in any order
SpecLoad == InitLoad /\ [][NextLoad]_vars

\* ---------------------------------------------------- observing the graph
\* the heaps now, in the shape of the snapshot kept in before
Now == [A |-> attrHeap, S |-> sessHeap, E |-> evtHeap, P |-> prof]

\* the attributes of Profile p by value
AttributesView(h, p) ==
    [i \in 1..Len(h.P[p].attributes) |-> h.A[h.P[p].attributes[i]]]

EventsView(h, sref) ==
    [j \in 1..Len(h.S[sref].events) |-> h.E[h.S[sref].events[j]]]

\* a Session by value, its events included
SessionView(h, sref) == [h.S[sref] EXCEPT !.events = EventsView(h, sref)]

SessionsView(h, p) ==
    [i \in 1..Len(h.P[p].sessions) |-> SessionView(h, h.P[p].sessions[i])]

\* attributes, sessions and events of Profile p by value
ProfileView(h, p) ==
    [id |-> h.P[p].id, attributes |-> AttributesView(h, p),
     sessions |-> SessionsView(h, p)]

AttrKey(a) == <<a.collectApp, a.section, a.name>>
AttrKeys(h, p) == {AttrKey(h.A[r]) : r \in Range(h.P[p].attributes)}
\* the value getAttribute(name, collectApp, section).getValue() reads
AttrValue(h, p, key) == h.A[getAttribute(h, p, key[3], key[1], key[2])].value

SessionIds(h, p) == {h.S[r].id : r \in Range(h.P[p].sessions)}
EventIds(h, sref) == {h.E[r].id : r \in Range(h.S[sref].events)}
EventIdSeq(h, sref) == [j \in 1..Len(h.S[sref].events) |-> h.E[h.S[sref].events[j]].id]

\* s holds no value twice
Injective(s) == \A i, j \in 1..Len(s) : s[i] = s[j] => i = j

\* no two Attributes of p share a key, no two Sessions an id, no two Events of
\* one Session an id
NoDuplicates(h, p) ==
    /\ Injective([i \in 1..Len(h.P[p].attributes) |-> AttrKey(h.A[h.P[p].attributes[i]])])
    /\ Injective([i \in 1..Len(h.P[p].sessions) |-> h.S[h.P[p].sessions[i]].id])
    /\ \A r \in Range(h.P[p].sessions) : Injective(EventIdSeq(h, r))

Merged == last.op = "merge" /\ last.err = ""
MergeFailed == last.op = "merge" /\ last.err # ""
\* session ids held by both sides before the merge
SharedSessionIds == SessionIds(before, "local") \cap SessionIds(before, "remote")

\* ------------------------------------------------------------------ claims

\* C1: when the ids of local and remote differ, local.merge(remote) fails and
\* the attributes, sessions and events of both Profiles are what they were
\* before the call.
C1_DifferentIdsFailUntouched ==
    (last.op = "merge" /\ before.P["local"].id # before.P["remote"].id)
    => /\ last.err = "Profile IDs should be similar"
       /\ ProfileView(Now, "local") = ProfileView(before, "local")
       /\ ProfileView(Now, "remote") = ProfileView(before, "remote")

C1_Witness ==
    /\ last.op = "merge"
    /\ before.P["local"].id # before.P["remote"].id
    /\ last.err # ""
    /\ Len(prof["local"].attributes) > 0
    /\ Len(prof["remote"].sessions) > 0

\* C2 (as claimed): after a successful merge of Profiles without duplicate
\* keys, the merged attribute keys are the union of both sides' keys, a key of
\* both sides carries the value local held before the merge, a key of one side
\* carries that side's value.
C2_LocalValueWins ==
    (Merged /\ NoDuplicates(before, "local") /\ NoDuplicates(before, "remote"))
    => /\ AttrKeys(Now, "local") = AttrKeys(before, "local") \cup AttrKeys(before, "remote")
       /\ \A key \in AttrKeys(Now, "local") :
             AttrValue(Now, "local", key) =
                IF key \in AttrKeys(before, "local")
                THEN AttrValue(before, "local", key)
                ELSE AttrValue(before, "remote", key)

\* the Sessions local held under one id before the merge, in order
LocalSessionsWith(id) ==
    SelectSeq(before.P["local"].sessions, LAMBDA r : before.S[r].id = id)

\* C3: after a successful merge the session ids of local are the union of the
\* local and the remote session ids; a session only remote had is there with
\* the data and events remote had; a session only local had is there with
\* every event local had under that id, and as local had it, data and events,
\* when local held the id once.
C3_SessionUnion ==
    Merged
    => /\ SessionIds(Now, "local") =
             SessionIds(before, "local") \cup SessionIds(before, "remote")
       /\ \A id \in SessionIds(before, "remote") \ SessionIds(before, "local") :
             SessionView(Now, getSession(Now, "local", id)) =
                SessionView(before, getSession(before, "remote", id))
       /\ \A id \in SessionIds(before, "local") \ SessionIds(before, "remote") :
             /\ \A r \in Range(LocalSessionsWith(id)) :
                   EventIds(before, r) \subseteq EventIds(Now, getSession(Now, "local", id))
             /\ Len(LocalSessionsWith(id)) = 1
                => SessionView(Now, getSession(Now, "local", id)) =
                      SessionView(before, getSession(before, "local", id))

C3_Witness ==
    /\ Merged
    /\ \E id \in SessionIds(before, "local") \ SessionIds(before, "remote") :
          /\ Len(LocalSessionsWith(id)) = 1
          /\ Len(before.S[getSession(before, "local", id)].events) > 0
    /\ \E id \in SessionIds(before, "remote") \ SessionIds(before, "local") :
          Len(before.S[getSession(before, "remote", id)].events) > 0

\* the elements of s that are not in drop, in order
RECURSIVE Without(_, _)
Without(s, drop) ==
    IF s = <<>> THEN <<>>
    ELSE (IF Head(s) \in drop THEN <<>> ELSE <<Head(s)>>) \o Without(Tail(s), drop)

\* s without the later occurrences of a value
RECURSIVE Dedupe(_)
Dedupe(s) ==
    IF s = <<>> THEN <<>>
    ELSE <<Head(s)>> \o Dedupe(Without(Tail(s), {Head(s)}))

\* the events of the sessions in refs, in order
RECURSIVE EventsOf(_)
EventsOf(refs) ==
    IF refs = <<>> THEN <<>>
    ELSE before.S[Head(refs)].events \o EventsOf(Tail(refs))

\* the Events local held under session id before the merge, in order
LocalEvents(id) == EventsOf(LocalSessionsWith(id))
LocalEventIdSeq(id) == [j \in 1..Len(LocalEvents(id)) |-> before.E[LocalEvents(id)[j]].id]
\* the first and the last local Event with event id e in session id
FirstLocalEvent(id, e) ==
    LocalEvents(id)[CHOOSE j \in 1..Len(LocalEvents(id)) :
                       /\ LocalEventIdSeq(id)[j] = e
                       /\ \A k \in 1..(j - 1) : LocalEventIdSeq(id)[k] # e]
LastLocalEvent(id, e) ==
    LocalEvents(id)[CHOOSE j \in 1..Len(LocalEvents(id)) :
                       /\ LocalEventIdSeq(id)[j] = e
                       /\ \A k \in (j + 1)..Len(LocalEvents(id)) : LocalEventIdSeq(id)[k] # e]

\* C4: for a session id of both sides, after a successful merge the events of
\* the merged session are the remote events followed by the events only local
\* had; an event id of both sides is the remote event with the data of the
\* local event, an event only local had is the local event, an event only
\* remote had is the remote event. (Where local held an event id more than
\* once, "the local event" is its first holder and the data that of its last.)
C4_EventUnion ==
    Merged
    => \A id \in SharedSessionIds :
          LET rs == getSession(before, "remote", id)
              ms == getSession(Now, "local", id)
              lids == Range(LocalEventIdSeq(id))
          IN /\ EventIdSeq(Now, ms) =
                   EventIdSeq(before, rs) \o
                   Dedupe(Without(LocalEventIdSeq(id), EventIds(before, rs)))
             /\ \A e \in EventIds(Now, ms) :
                   IF e \in lids /\ e \in EventIds(before, rs)
                   THEN Now.E[getEvent(Now, ms, e)] =
                           [before.E[getEvent(before, rs, e)]
                              EXCEPT !.data = before.E[LastLocalEvent(id, e)].data]
                   ELSE IF e \in lids
                   THEN Now.E[getEvent(Now, ms, e)] =
                           [before.E[FirstLocalEvent(id, e)]
                              EXCEPT !.data = before.E[LastLocalEvent(id, e)].data]
                   ELSE Now.E[getEvent(Now, ms, e)] = before.E[getEvent(before, rs, e)]

C4_Witness ==
    /\ Merged
    /\ NoDuplicates(before, "local")
    /\ \E id \in SharedSessionIds :
          LET ls == getSession(before, "local", id)
              rs == getSession(before, "remote", id)
          IN \E e \in EventIds(before, ls) \cap EventIds(before, rs) :
                before.E[getEvent(before, ls, e)].data #
                   before.E[getEvent(before, rs, e)].data

\* a merge in which a shared session gained an event only local had
C4_WitnessAppended ==
    /\ Merged
    /\ NoDuplicates(before, "local")
    /\ \E id \in SharedSessionIds :
          LET ls == getSession(before, "local", id)
              rs == getSession(before, "remote", id)
          IN /\ EventIds(before, ls) \ EventIds(before, rs) # {}
             /\ EventIds(before, rs) \ EventIds(before, ls) # {}

\* the value of key k in the last of the data objects that sets it
LastSet(datas, k) ==
    IF \E i \in 1..Len(datas) : datas[i][k] # Undefined
    THEN datas[CHOOSE i \in 1..Len(datas) :
                  /\ datas[i][k] # Undefined
                  /\ \A j \in (i + 1)..Len(datas) : datas[j][k] = Undefined][k]
    ELSE Undefined

\* C5: for a session id of both sides, after a successful merge the data of
\* the merged session has every key of the local data with the local value and
\* every other key of the remote data with the remote value. (Where local held
\* the session id more than once, the last local session setting a key gives
\* its value.)
C5_SessionDataOverlay ==
    Merged
    => \A id \in SharedSessionIds :
          LET rd == before.S[getSession(before, "remote", id)].data
              lds == [i \in 1..Len(LocalSessionsWith(id)) |->
                         before.S[LocalSessionsWith(id)[i]].data]
              md == Now.S[getSession(Now, "local", id)].data
          IN \A k \in DataKeys :
                md[k] = IF LastSet(lds, k) # Undefined THEN LastSet(lds, k) ELSE rd[k]

C5_Witness ==
    /\ Merged
    /\ NoDuplicates(before, "local")
    /\ \E id \in SharedSessionIds :
          LET ld == before.S[getSession(before, "local", id)].data
              rd == before.S[getSession(before, "remote", id)].data
          IN \E k \in DataKeys :
                /\ ld[k] # Undefined /\ rd[k] # Undefined /\ ld[k] # rd[k]

\* a merge in which the remote session had a key the local session lacked
C5_WitnessRemoteKey ==
    /\ Merged
    /\ NoDuplicates(before, "local")
    /\ \E id \in SharedSessionIds :
          LET ld == before.S[getSession(before, "local", id)].data
              rd == before.S[getSession(before, "remote", id)].data
          IN \E k1, k2 \in DataKeys :
                /\ ld[k1] # Undefined /\ rd[k1] = Undefined
                /\ ld[k2] = Undefined /\ rd[k2] # Undefined

\* C6: for an event id held by the same session on both sides, a successful
\* merge leaves the definitionId of the merged event at the remote
\* definitionId.
C6_DefinitionIdStaysRemote ==
    Merged
    => \A id \in SharedSessionIds :
          LET ls == getSession(before, "local", id)
              rs == getSession(before, "remote", id)
              ms == getSession(Now, "local", id)
          IN \A e \in EventIds(before, ls) \cap EventIds(before, rs) :
                Now.E[getEvent(Now, ms, e)].definitionId =
                   before.E[getEvent(before, rs, e)].definitionId

C6_Witness ==
    /\ Merged
    /\ \E id \in SharedSessionIds :
          LET ls == getSession(before, "local", id)
              rs == getSession(before, "remote", id)
          IN \E e \in EventIds(before, ls) \cap EventIds(before, rs) :
                /\ before.E[getEvent(before, ls, e)].definitionId #
                      before.E[getEvent(before, rs, e)].definitionId
                /\ before.E[getEvent(before, ls, e)].definitionId # ""

\* the objects a Profile reaches
AttrRefs(h, p) == Range(h.P[p].attributes)
SessionRefs(h, p) == Range(h.P[p].sessions)
EventRefs(h, p) == UNION {Range(h.S[r].events) : r \in SessionRefs(h, p)}

\* C7 (as claimed): after a successful merge the attributes, sessions, session
\* data and events of remote are what they were, and local and remote share
\* no Attribute, Session or Event object.
C7_RemoteUntouchedNothingShared ==
    Merged
    => /\ ProfileView(Now, "remote") = ProfileView(before, "remote")
       /\ AttrRefs(Now, "local") \cap AttrRefs(Now, "remote") = {}
       /\ SessionRefs(Now, "local") \cap SessionRefs(Now, "remote") = {}
       /\ EventRefs(Now, "local") \cap EventRefs(Now, "remote") = {}

\* C8 (as claimed): a merge that raises an error leaves the attributes and
\* sessions of local as they were.
C8_AllOrNothing ==
    MergeFailed => ProfileView(Now, "local") = ProfileView(before, "local")

\* C9: a successful merge returns the Profile it was called on.
C9_ReturnsLocal ==
    Merged => last.ret = last.self /\ last.ret = "local"

C9_Witness ==
    /\ Merged
    /\ last.ret = "local"
    /\ Len(before.P["remote"].attributes) > 0
    /\ ProfileView(Now, "local") # ProfileView(before, "local")

\* C10 (as claimed): no Profile ever holds two Attributes with one key, two
\* Sessions with one id, or a Session with two Events with one id.
C10_NoDuplicates ==
    \A p \in PROFILES : NoDuplicates(Now, p)

\* C11 (as claimed): every Attribute, Session and Event held by a Profile
\* passes its isValid().
C11_NoInvalidStored ==
    \A p \in PROFILES :
       /\ \A r \in AttrRefs(Now, p) : AttributeIsValid(attrHeap[r])
       /\ \A r \in SessionRefs(Now, p) : SessionIsValid(sessHeap[r])
       /\ \A r \in EventRefs(Now, p) : EventIsValid(evtHeap[r])

\* the argument of the last recorded call
LastArg == calls[Len(calls)].arg

\* position of the first invalid entry of an array of raw attributes, 0 when
\* all are valid
FirstInvalid(attributes) == FirstIndex(attributes, LAMBDA e : ~AttributeIsValid(e))

\* the attributes, by value, a Profile holding view has after the entries were
\* applied one by one: the value of the first Attribute with the entry's key
\* is overwritten, an entry with a new key is added at the end
RECURSIVE Applied(_, _)
Applied(view, entries) ==
    IF entries = <<>> THEN view
    ELSE LET e == Head(entries)
             i == FirstIndex(view, LAMBDA a : AttrKey(a) = AttrKey(e))
         IN Applied(IF i = 0 THEN Append(view, e)
                    ELSE [view EXCEPT ![i].value = e.value],
                    Tail(entries))

\* C12: setAttributes on an array whose first invalid entry is at position k
\* raises 'Attribute is not valid', and the Profile holds what applying the
\* entries before k, and nothing else, gives.
C12_PrefixApplied ==
    (last.op = "setAttributes" /\ FirstInvalid(LastArg) # 0)
    => /\ last.err = "Attribute is not valid"
       /\ AttributesView(Now, last.self) =
             Applied(AttributesView(before, last.self),
                     SubSeq(LastArg, 1, FirstInvalid(LastArg) - 1))
       /\ SessionsView(Now, last.self) = SessionsView(before, last.self)

\* a valid entry with a new key and a valid entry with a held key were
\* applied before the invalid one, and a valid entry follows it
C12_Witness ==
    /\ last.op = "setAttributes"
    /\ last.err = "Attribute is not valid"
    /\ Len(LastArg) = 3
    /\ FirstInvalid(LastArg) = 2
    /\ AttributeIsValid(LastArg[3])
    /\ AttrKey(LastArg[3]) \notin AttrKeys(before, "local")
    /\ AttrKey(LastArg[3]) # AttrKey(LastArg[1])
    /\ AttrKey(LastArg[1]) \in AttrKeys(before, "local")
    /\ AttrValue(before, "local", AttrKey(LastArg[1])) # LastArg[1].value

\* the payloads given to the i-th session of local, in order: the data of its
\* constructor config, then the arguments of the setData calls on it
Payloads(i) ==
    <<calls[1].arg[i].data>> \o
    [j \in 1..Len(SelectSeq(Tail(calls), LAMBDA c : c.index = i)) |->
        SelectSeq(Tail(calls), LAMBDA c : c.index = i)[j].arg]

\* C13: after any sequence of setData calls the data of a Session maps each
\* key to the value of the last payload that contained the key; a key no
\* payload contained is not set.
C13_SetDataAccumulates ==
    \A i \in 1..Len(prof["local"].sessions) :
       \A k \in DataKeys :
          sessHeap[prof["local"].sessions[i]].data[k] = LastSet(Payloads(i), k)

\* a later payload without the key left the value, a later payload with the
\* key replaced it
C13_Witness ==
    /\ Len(calls) = 3
    /\ calls[2].index = calls[3].index
    /\ \E k1, k2 \in DataKeys :
          /\ k1 # k2
          /\ calls[2].arg[k1] # Undefined /\ calls[3].arg[k1] = Undefined
          /\ calls[2].arg[k2] # Undefined /\ calls[3].arg[k2] # Undefined
          /\ calls[2].arg[k2] # calls[3].arg[k2]
          /\ Payloads(calls[2].index)[1][k1] # Undefined
          /\ Payloads(calls[2].index)[1][k1] # calls[2].arg[k1]

\* C14 (as claimed): getLastSession returns null for a Profile without
\* sessions, and otherwise a Session the Profile holds whose modifiedAt is the
\* largest of all its sessions.
C14_LastSession ==
    last.op = "getLastSession"
    => IF Len(prof[last.self].sessions) = 0
       THEN last.ref = Null
       ELSE /\ last.ref \in SessionRefs(Now, last.self)
            /\ \A r \in SessionRefs(Now, last.self) :
                  sessHeap[r].modifiedAt <= sessHeap[last.ref].modifiedAt

\* C15 (as claimed): serialize succeeds on every Profile, and the Profile
\* constructed from the result serializes to the same structure.
C15_SerializeRoundTrips ==
    /\ last.op = "serialize" => last.err = ""
    /\ (last.op = "new" /\ last.self = "remote") => last.err = ""
    /\ \A i, j \in 1..Len(calls) :
          (/\ i < j
           /\ calls[i].op = "new" /\ calls[i].err = ""
           /\ calls[j].op = "serialize" /\ calls[j].self = "remote")
          => calls[j].ret = calls[i].ret

\* the valid Attributes of p
ValidAttributes(h, p) == {h.A[r] : r \in {q \in AttrRefs(h, p) : AttributeIsValid(h.A[q])}}

\* C16 (as claimed): the attributes of p.serialize() hold one group per
\* (collectApp, section) of the valid Attributes of p and no other group;
\* every valid Attribute is name -> value in the data of its group, and the
\* groups hold nothing else.
C16_SerializeGroups ==
    (last.op = "serialize" /\ last.err = "")
    => LET groups == calls[Len(calls)].ret.attributes
           valid == ValidAttributes(Now, last.self)
       IN /\ {<<groups[i].collectApp, groups[i].section>> : i \in 1..Len(groups)} =
                {<<a.collectApp, a.section>> : a \in valid}
          /\ \A i, j \in 1..Len(groups) :
                (groups[i].collectApp = groups[j].collectApp
                 /\ groups[i].section = groups[j].section) => i = j
          /\ \A a \in valid :
                \E i \in 1..Len(groups) :
                   /\ groups[i].collectApp = a.collectApp
                   /\ groups[i].section = a.section
                   /\ \E e \in Range(groups[i].data) : e.name = a.name /\ e.value = a.value
          /\ \A i \in 1..Len(groups) :
                /\ Injective([k \in 1..Len(groups[i].data) |-> groups[i].data[k].name])
                /\ \A e \in Range(groups[i].data) :
                      \E a \in valid :
                         /\ a.collectApp = groups[i].collectApp
                         /\ a.section = groups[i].section
                         /\ a.name = e.name /\ a.value = e.value

\* the last step before step i that set or evicted key, 0 when there is none
LastWrite(i, key) ==
    LET writes == {j \in 1..(i - 1) :
                      \/ trace[j].op \in {"cache.set", "cache.expire"} /\ trace[j].key = key
                      \/ trace[j].op = "cache.clearCache"}
    IN IF writes = {} THEN 0
       ELSE CHOOSE j \in writes : \A k \in writes : k <= j

\* C17: on the helper's Cache, get(k) returns the value of the last set(k, v)
\* when fewer than 600 seconds have passed since that set and no expire(k) or
\* clearCache() came after it, and undefined otherwise.
C17_CacheTTL ==
    \A i \in 1..Len(trace) :
       trace[i].op = "cache.get"
       => trace[i].ret =
             IF /\ LastWrite(i, trace[i].key) # 0
                /\ trace[LastWrite(i, trace[i].key)].op = "cache.set"
                /\ trace[i].time - trace[LastWrite(i, trace[i].key)].time < 600
             THEN trace[LastWrite(i, trace[i].key)].value
             ELSE Undefined

\* a key read back 599 seconds after its set and read as absent a second
\* later
C17_Witness ==
    \E i, j, k \in 1..Len(trace) :
       /\ i < j /\ j < k
       /\ trace[i].op = "cache.set"
       /\ trace[j].op = "cache.get" /\ trace[j].key = trace[i].key
       /\ trace[k].op = "cache.get" /\ trace[k].key = trace[i].key
       /\ LastWrite(k, trace[i].key) = i
       /\ trace[j].time - trace[i].time = 599
       /\ trace[k].time - trace[i].time = 600
       /\ trace[j].ret = trace[i].value
       /\ trace[k].ret = Undefined

\* expire(k) made a key absent that get would have returned, and left the
\* other key
C17_WitnessExpire ==
    \E i, j \in 1..Len(trace) :
       /\ i < j
       /\ trace[i].op = "cache.expire"
       /\ CacheGet(trace[i].pre.cache, trace[i].key, trace[i].time) # Undefined
       /\ trace[j].op = "cache.get" /\ trace[j].key # trace[i].key
       /\ trace[j].ret # Undefined
       /\ CacheGet(trace[j].post.cache, trace[i].key, trace[j].time) = Undefined

\* the key of the settings
SettingsKey == getCacheKey("settings")

\* step i ends a getAppSettings call by handing settings to its callback
GetCompleted(i) ==
    /\ trace[i].op \in {"call", "response"}
    /\ trace[i].method = "get"
    /\ trace[i].delivered /\ trace[i].err = ""

\* step j is a getAppSettings call
GetCalled(j) == trace[j].op = "call" /\ trace[j].method = "get"

\* caching is allowed before and after every step from a to b
AllowedThrough(a, b) ==
    \A k \in a..b : ~trace[k].pre.noCache /\ ~trace[k].post.noCache

\* caching is disallowed before and after every step from a to b
DisallowedThrough(a, b) ==
    \A k \in a..b : trace[k].pre.noCache /\ trace[k].post.noCache

\* the settings entry the cache holds after step i is not evicted before step j
\* and not expired when step j is taken
EntryLives(i, j) ==
    /\ trace[i].post.cache.cache[SettingsKey].has
    /\ \A k \in (i + 1)..(j - 1) : trace[k].op \notin {"cache.clearCache", "cache.expire"}
    /\ trace[j].time - trace[i].post.cache.cache[SettingsKey].at < 600

\* step i ended a getAppSettings call successfully, step j is a later
\* getAppSettings call, caching was allowed from the first call on, and the
\* settings entry is still there
LaterCall(i, j) ==
    /\ i < j
    /\ GetCompleted(i)
    /\ GetCalled(j)
    /\ AllowedThrough(trace[i].id, j)
    /\ EntryLives(i, j)

\* C18 (as claimed): with caching allowed, a getAppSettings call made after a
\* getAppSettings call has completed successfully and before the cache entry
\* expires issues no request and hands its callback the settings the
\* completed call handed to its callback.
C18_SameSettingsFromCache ==
    \A i, j \in 1..Len(trace) :
       LaterCall(i, j)
       => /\ ~trace[j].requested
          /\ trace[j].delivered /\ trace[j].err = ""
          /\ trace[j].settings = trace[i].settings

\* step k is the response that handed settings to the callback of a
\* getAppSettings or setAppSettings call made while caching was allowed
Stored(k) ==
    /\ trace[k].op = "response"
    /\ trace[k].delivered /\ trace[k].err = ""
    /\ ~trace[trace[k].id].pre.noCache

\* the last such response before step j
LastStored(j) ==
    CHOOSE k \in 1..(j - 1) : Stored(k) /\ \A l \in (k + 1)..(j - 1) : ~Stored(l)

\* C18 (amended): such a later call issues no request and hands its callback
\* the settings of the last successful response to a getAppSettings or
\* setAppSettings call made while caching was allowed.
C18_LatestSettingsFromCache ==
    \A i, j \in 1..Len(trace) :
       LaterCall(i, j)
       => /\ ~trace[j].requested
          /\ trace[j].delivered /\ trace[j].err = ""
          /\ \E k \in 1..(j - 1) : Stored(k)
          /\ trace[j].settings = trace[LastStored(j)].settings

\* a later call served from the cache after a setAppSettings response
\* replaced the settings of the completed call
C18_Witness ==
    \E i, j \in 1..Len(trace) :
       /\ LaterCall(i, j)
       /\ trace[i].op = "response"
       /\ LastStored(j) > i
       /\ trace[LastStored(j)].method = "put"
       /\ trace[LastStored(j)].settings # trace[i].settings

\* a later call served from the cache with the settings of the completed call
C18_WitnessSame ==
    \E i, j \in 1..Len(trace) :
       /\ LaterCall(i, j)
       /\ trace[i].op = "response"
       /\ LastStored(j) = i
       /\ trace[j].time > trace[i].time

\* key is absent from the cache of helper h at time now
Absent(h, key, now) == h.cache.null \/ CacheGet(h.cache, key, now) = Undefined

\* step r ends the getAppSettings or setAppSettings call made in step c
EndsCall(c, r) ==
    /\ trace[c].op = "call"
    /\ \/ r = c /\ ~trace[c].requested
       \/ c < r /\ trace[r].op = "response" /\ trace[r].id = c

\* C19 (as claimed): while caching is disallowed every getAppSettings call
\* issues a request, and a getAppSettings or setAppSettings call does not
\* read the cache and a key absent before the call is absent after it.
C19_DisallowedNoCacheUse ==
    /\ \A c \in 1..Len(trace) :
          (GetCalled(c) /\ trace[c].pre.noCache) => trace[c].requested
    /\ \A c, r \in 1..Len(trace) :
          (EndsCall(c, r) /\ DisallowedThrough(c, r))
          => /\ ~trace[c].read /\ ~trace[r].read
             /\ \A key \in CacheKeys :
                   Absent(trace[c].pre, key, trace[c].time)
                   => Absent(trace[r].post, key, trace[r].time)

\* C19 (amended): a getAppSettings call made while caching is disallowed
\* issues a request, and no step of a getAppSettings or setAppSettings call
\* made while caching is disallowed reads the cache or changes it.
C19_DisallowedCallsLeaveCache ==
    \A k \in 1..Len(trace) :
       (trace[k].op \in {"call", "response"} /\ trace[trace[k].id].pre.noCache)
       => /\ ~trace[k].read
          /\ trace[k].post.cache = trace[k].pre.cache
          /\ GetCalled(k) => trace[k].requested

\* a getAppSettings call made while caching was disallowed, on a helper that
\* has a Cache without the settings, got its settings from the server
C19_Witness ==
    \E c, r \in 1..Len(trace) :
       /\ GetCalled(c)
       /\ EndsCall(c, r) /\ c < r
       /\ trace[c].pre.noCache
       /\ ~trace[c].pre.cache.null
       /\ trace[r].delivered /\ trace[r].err = ""
       /\ Absent(trace[r].post, SettingsKey, trace[r].time)

\* C20: when caching is allowed throughout a setAppSettings call whose
\* response hands settings to the callback, cache.get of the settings key
\* then returns those settings.
C20_SetAppSettingsCached ==
    \A r \in 1..Len(trace) :
       (/\ trace[r].op = "response" /\ trace[r].method = "put"
        /\ trace[r].delivered /\ trace[r].err = ""
        /\ AllowedThrough(trace[r].id, r))
       => /\ ~trace[r].post.cache.null
          /\ CacheGet(trace[r].post.cache, SettingsKey, trace[r].time) = trace[r].settings

\* such a setAppSettings call replaced settings the cache held
C20_Witness ==
    \E r \in 1..Len(trace) :
       /\ trace[r].op = "response" /\ trace[r].method = "put"
       /\ trace[r].delivered /\ trace[r].err = ""
       /\ AllowedThrough(trace[r].id, r)
       /\ CacheGet(trace[r].pre.cache, SettingsKey, trace[r].time) # Undefined
       /\ CacheGet(trace[r].pre.cache, SettingsKey, trace[r].time) # trace[r].settings

\* ------------------------------------------------------------------ C21
\* the steps at which a request called back with a failure: a transport
\* error, or a body without "custom"
FailedResponse(i) ==
    /\ trace[i].op = "response"
    /\ trace[i].response.error \/ ~trace[i].response.hasCustom

\* C21: when the request of getAppSettings or setAppSettings calls back with
\* a transport error, or with a success status and a body that has no
\* "custom" field, the callback receives an error and null settings, and the
\* cache is as it was before the response.
C21_FailedResponseNotCached ==
    \A i \in 1..Len(trace) :
       FailedResponse(i) =>
          /\ trace[i].delivered
          /\ trace[i].thrown = ""
          /\ trace[i].err # ""
          /\ trace[i].settings = Null
          /\ trace[i].post.cache = trace[i].pre.cache

\* a getAppSettings call answered without "custom" and a setAppSettings call
\* answered with a transport error, both taken with caching allowed
C21_Witness ==
    \E i, j \in 1..Len(trace) :
       /\ FailedResponse(i) /\ trace[i].method = "get" /\ trace[i].allowed
       /\ ~trace[i].response.error
       /\ FailedResponse(j) /\ trace[j].method = "put" /\ trace[j].allowed
       /\ trace[j].response.error

\* ------------------------------------------------------------------ C22
\* the steps at which setAppSettings was called without settings
MissingSettings(i) ==
    trace[i].op = "call" /\ trace[i].method = "put" /\ trace[i].missing

\* C22, as claimed: setAppSettings called without settings issues no
\* request, leaves the cache unchanged, and throws 'Settings not found'
\* instead of calling the callback.
C22_MissingSettingsThrown ==
    \A i \in 1..Len(trace) :
       MissingSettings(i) =>
          /\ ~trace[i].requested
          /\ trace[i].post.cache = trace[i].pre.cache
          /\ trace[i].thrown = "Settings not found"
          /\ ~trace[i].delivered

\* C22, amended: setAppSettings called without settings issues no request,
\* leaves the cache unchanged, throws nothing, and calls the callback with
\* the error 'Settings not found' and null settings before it returns.
C22_MissingSettingsCalledBack ==
    \A i \in 1..Len(trace) :
       MissingSettings(i) =>
          /\ ~trace[i].requested
          /\ trace[i].post.cache = trace[i].pre.cache
          /\ trace[i].thrown = ""
          /\ trace[i].delivered
          /\ trace[i].err = "Settings not found"
          /\ trace[i].settings = Null

\* setAppSettings called without settings while the settings key is cached
C22_Witness ==
    \E i \in 1..Len(trace) :
       /\ MissingSettings(i)
       /\ ~trace[i].pre.cache.null
       /\ trace[i].pre.cache.cache[getCacheKey("settings")].has

\* ------------------------------------------------------------------ C23
\* the steps at which loadProfile's request called back with a success
\* status and a body without a profile object
NoProfileLoaded(i) ==
    /\ trace[i].op = "response"
    /\ trace[i].method = "load"
    /\ trace[i].response.kind \in {"noProfile", "notObject"}

\* C23: when the response to loadProfile has a success status and a body
\* whose profile is missing or not an object, the callback receives an
\* error; it is never called with a null error and a null profile.
C23_NoProfileIsError ==
    \A i \in 1..Len(trace) :
       (trace[i].op = "response" /\ trace[i].method = "load") =>
          /\ NoProfileLoaded(i) => trace[i].delivered /\ trace[i].err # ""
          /\ ~(trace[i].delivered /\ trace[i].err = "" /\ trace[i].profile = "")

\* ------------------------------------------------------------------ C24
\* the steps that end the refreshLocalProfile call id: its call when that
\* issued no request, its response otherwise
EndsRefresh(i) ==
    /\ trace[i].method = "refresh"
    /\ trace[i].op = "response" \/ ~trace[i].requested

\* C24: whatever the load gives (transport error, bad status, a response
\* without profile, a profile with another id, a profile with the same id),
\* the step that ends a refreshLocalProfile call throws nothing and calls the
\* callback, with an error or with the local profile; no call has its
\* callback called twice; and a step that delivers an error leaves the local
\* profile as it was.
C24_RefreshCompletes ==
    /\ \A i \in 1..Len(trace) :
          EndsRefresh(i) =>
             /\ trace[i].thrown = ""
             /\ trace[i].delivered
             /\ trace[i].err # "" \/ trace[i].profile = "local"
    /\ \A i, j \in 1..Len(trace) :
          (trace[i].method = "refresh" /\ trace[i].id = trace[j].id
             /\ trace[i].delivered /\ trace[j].delivered) => i = j
    /\ (Len(trace) > 0 /\ EndsRefresh(Len(trace)) /\ trace[Len(trace)].err # "") =>
          ProfileView(Now, "local") = ProfileView(before, "local")

\* ------------------------------------------------------------------ C25
\* the getAppSettings call j follows the successful getAppSettings response
\* i within the cache lifetime, both on helpers that allow caching, and no
\* setAppSettings response came between them
FollowsSuccess(i, j) ==
    /\ i < j
    /\ trace[i].op = "response" /\ trace[i].method = "get"
    /\ trace[i].allowed /\ trace[i].delivered /\ trace[i].err = ""
    /\ trace[j].op = "call" /\ trace[j].method = "get" /\ trace[j].allowed
    /\ trace[j].time - trace[i].time < trace[j].pre.cache.cachedTime
    /\ \A k \in (i + 1)..(j - 1) : trace[k].method # "put"

\* C25: on the helper of src/index.js, with noCache unset a getAppSettings
\* call that follows a successful one within the cache lifetime is answered
\* from the cache and issues no request; with noCache true a getAppSettings
\* call is never answered from the cache and always issues a request.
C25_CachedUnlessNoCache ==
    /\ \A i, j \in 1..Len(trace) :
          FollowsSuccess(i, j) => trace[j].delivered /\ ~trace[j].requested
    /\ \A j \in 1..Len(trace) :
          (trace[j].op = "call" /\ trace[j].method = "get" /\ ~trace[j].allowed) =>
             trace[j].requested /\ ~trace[j].delivered

\* ------------------------------------------------------------------ C26
\* the error of new IdGenerator(arg) is the one the tests name for arg: a
\* non-number, a negative number, a number that is no integer
RejectedAsTested(arg, err) ==
    /\ arg.kind = "string" => err = "Length should be a number"
    /\ (arg.kind = "number" /\ arg.halves < 0) =>
          err \in {"Length should be positive", "Length should be integer"}
    /\ (arg.kind = "number" /\ arg.halves < 0 /\ arg.halves % 2 = 0) =>
          err = "Length should be positive"
    /\ (arg.kind = "number" /\ arg.halves > 0 /\ arg.halves % 2 # 0) =>
          err = "Length should be integer"

\* the length asked for with arg, which is no length or an integer
Requested(arg) ==
    IF arg.kind = "undefined" THEN DefaultLength ELSE arg.halves \div 2

\* C26, as claimed: new IdGenerator(length) throws for a non-number, a
\* negative number and a non-integer; for every other length, 0 included, it
\* constructs, and getId() returns a non-empty string of exactly the
\* requested length, 32 when none was given.
C26_NonNegativeLengths ==
    \A i \in 1..Len(trace) :
       /\ trace[i].op = "new" =>
             /\ RejectedAsTested(trace[i].arg, trace[i].err)
             /\ (trace[i].arg.kind = "undefined"
                  \/ (trace[i].arg.kind = "number" /\ trace[i].arg.halves >= 0
                        /\ trace[i].arg.halves % 2 = 0)) => trace[i].err = ""
       /\ trace[i].op = "getId" =>
             /\ Len(trace[i].id) > 0
             /\ Len(trace[i].id) = Requested(trace[i].arg)

\* C26, amended: new IdGenerator(length) throws for a non-number, a negative
\* number and a non-integer, and constructs for a positive integer and for
\* no length; an IdGenerator is only ever constructed from no length or a
\* non-negative integer; getId() on one constructed from a positive integer
\* or from no length returns a non-empty string of exactly that length, 32
\* when none was given.
C26_PositiveLengths ==
    \A i \in 1..Len(trace) :
       /\ trace[i].op = "new" =>
             /\ RejectedAsTested(trace[i].arg, trace[i].err)
             /\ (trace[i].arg.kind = "undefined"
                  \/ (trace[i].arg.kind = "number" /\ trace[i].arg.halves > 0
                        /\ trace[i].arg.halves % 2 = 0)) => trace[i].err = ""
             /\ trace[i].err = "" =>
                   \/ trace[i].arg.kind = "undefined"
                   \/ /\ trace[i].arg.kind = "number"
                      /\ trace[i].arg.halves >= 0
                      /\ trace[i].arg.halves % 2 = 0
       /\ (trace[i].op = "getId"
             /\ (trace[i].arg.kind = "undefined" \/ trace[i].arg.halves > 0)) =>
             /\ Len(trace[i].id) > 0
             /\ Len(trace[i].id) = Requested(trace[i].arg)

\* an id of the largest length asked for, an id of the default length, and
\* a construction with a number that is no integer
C26_Witness ==
    /\ Len(trace) = 3
    /\ trace[1].op = "new" /\ trace[1].arg.kind = "undefined"
    /\ trace[2].op = "getId" /\ Len(trace[2].id) = DefaultLength
    /\ trace[3].op = "new" /\ trace[3].arg.kind = "number"
    /\ trace[3].arg.halves = 2 * MaxIdLength - 1 /\ trace[3].err # ""

\* ------------------------------------------------------------------ C27
\* C27: in every state of a helper after construction with any noCache and
\* any sequence of setCacheAllowed, getAppSettings and setAppSettings calls,
\* isCacheAllowed() implies that helper.cache is a Cache, and no step has
\* thrown a TypeError on a null cache.
C27_AllowedImpliesCache ==
    /\ isCacheAllowed(helper) => ~helper.cache.null
    /\ \A i \in 1..Len(trace) : trace[i].thrown # "TypeError"

\* ------------------------------------------------------------------ C28
\* the last operation was a setSession that did not throw and whose
\* session has an id the Profile held before
SetExistingSession ==
    /\ last.op = "setSession"
    /\ last.err = ""
    /\ \E r \in Range(before.P[last.self].sessions) :
          before.S[r].id = sessHeap[last.ref].id

\* C28: setSession with a valid session whose id the Profile already holds
\* leaves the session collection as it was (the same Session objects in the
\* same order, with the data and events they had, so getSession(id) returns
\* the one stored before) and returns the passed-in session, which the call
\* does not put into the collection.
C28_ExistingSessionKept ==
    SetExistingSession =>
       /\ prof[last.self].sessions = before.P[last.self].sessions
       /\ SessionsView(Now, last.self) = SessionsView(before, last.self)
       /\ getSession(Now, last.self, sessHeap[last.ref].id)
             = getSession(before, last.self, sessHeap[last.ref].id)
       /\ \/ last.ref > Len(before.S)
          \/ Len(calls) > 0 /\ last.ref = calls[Len(calls)].arg
       /\ last.ref \notin Range(before.P[last.self].sessions) =>
             last.ref \notin Range(prof[last.self].sessions)

\* a Session of remote passed to local, which holds another Session with
\* that id and other data
C28_Witness ==
    /\ SetExistingSession
    /\ Len(calls) > 0
    /\ last.ref = calls[Len(calls)].arg
    /\ last.ref \notin Range(prof["local"].sessions)
    /\ sessHeap[last.ref].data
          # sessHeap[getSession(Now, "local", sessHeap[last.ref].id)].data

\* ------------------------------------------------------------------ C29
\* the getAppSettings call g was issued before the setAppSettings call s,
\* both with caching allowed, s completed successfully at step p, and the
\* response to g arrives at the later step k
LateGetResponse(g, s, p, k) ==
    /\ g < s /\ s < p /\ p < k
    /\ trace[g].op = "call" /\ trace[g].method = "get"
    /\ trace[g].requested /\ trace[g].allowed
    /\ trace[s].op = "call" /\ trace[s].method = "put"
    /\ trace[s].requested /\ trace[s].allowed
    /\ trace[p].op = "response" /\ trace[p].method = "put" /\ trace[p].id = s
    /\ trace[p].delivered /\ trace[p].err = ""
    /\ trace[k].op = "response" /\ trace[k].method = "get" /\ trace[k].id = g

\* C29: with caching allowed, once a setAppSettings call has completed
\* successfully, the response to a getAppSettings request issued before that
\* setAppSettings request does not write the cache: the settings cached by
\* setAppSettings are not replaced by what the server returned for the
\* older GET.
C29_NoStaleOverwrite ==
    \A g, s, p, k \in 1..Len(trace) :
       LateGetResponse(g, s, p, k) => trace[k].post.cache = trace[k].pre.cache

\* ------------------------------------------------------------------ C30
\* a constructor config with only valid content: every Attribute, Session
\* and Event built from it is valid
ValidConfig(c) ==
    /\ \A i \in 1..Len(c.attributes) :
          /\ c.attributes[i].collectApp # "" /\ c.attributes[i].section # ""
          /\ \A k \in 1..Len(c.attributes[i].data) : c.attributes[i].data[k].name # ""
    /\ \A i \in 1..Len(c.sessions) :
          /\ c.sessions[i].id # "" /\ c.sessions[i].section # ""
          /\ \A k \in 1..Len(c.sessions[i].events) :
                /\ c.sessions[i].events[k].id # ""
                /\ c.sessions[i].events[k].definitionId # ""

\* local.merge(remote) has been called twice on Profiles constructed with
\* the same id and only valid content
MergedTwice ==
    /\ steps = 2
    /\ calls[1].local.id = calls[1].remote.id
    /\ ValidConfig(calls[1].local)
    /\ ValidConfig(calls[1].remote)

\* C30: for Profiles with the same id and only valid content, the second
\* local.merge(remote) succeeds and leaves local (attributes with values,
\* sessions with data, events with data and definitionId, all in order) as
\* the first left it.
C30_MergeIdempotent ==
    MergedTwice =>
       /\ last.op = "merge" /\ last.err = ""
       /\ ProfileView(Now, "local") = ProfileView(before, "local")

====
